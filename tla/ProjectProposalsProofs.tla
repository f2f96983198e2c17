----------------------- MODULE ProjectProposalsProofs -----------------------
(***************************************************************************)
(* Proofs about ProjectProposals, for any bounds, requests, notes, users   *)
(* and number of drafts.  The invariant follows the references between the *)
(* three sequences: what a version, a run or a proposal names exists, and  *)
(* an acceptance is known to the version and the proposal alike.           *)
(***************************************************************************)
EXTENDS ProjectProposals, TLAPS, SequenceTheorems

SessionRow == [at: {"idle", "deciding", "accepted"},
               decisions: SUBSET (Notes \cup Nat), proposal: Nat]

Versions == 1..Len(versions)
Runs == 1..Len(runs)
Proposals == 1..Len(proposals)

Typed ==
    /\ versions \in Seq(VersionRow) /\ runs \in Seq(RunRow) /\ proposals \in Seq(ProposalRow)
    /\ session \in [Users -> SessionRow]

\* a decision, an open session and a finished acceptance name proposals that exist
Named ==
    /\ decisions \subseteq Notes \cup Proposals
    /\ \A u \in Users : /\ session[u].decisions \subseteq Notes \cup Proposals
                        /\ session[u].at = "accepted" => session[u].proposal \in Proposals

VersionsOK == \A v \in Versions :
    /\ versions[v].parent = v - 1
    /\ versions[v].proposal # None =>
           /\ versions[v].proposal \in Proposals
           /\ proposals[versions[v].proposal].status = "accepted"
           /\ proposals[versions[v].proposal].version = v
           /\ runs[proposals[versions[v].proposal].run].version = v - 1

ProposalsOK == \A p \in Proposals :
    /\ proposals[p].run \in Runs
    /\ proposals[p].status = "accepted" => /\ proposals[p].version \in Versions
                                           /\ versions[proposals[p].version].proposal = p

RunsOK ==
    /\ \A r \in Runs :
           /\ runs[r].version \in Versions
           /\ runs[r].proposal # None =>
                  /\ runs[r].proposal \in Proposals
                  /\ proposals[runs[r].proposal].status = "accepted"
                  /\ proposals[runs[r].proposal].version = runs[r].version
    /\ \A r, q \in Runs : runs[r].proposal # None /\ runs[r].proposal = runs[q].proposal => r = q

IInv == Typed /\ Named /\ VersionsOK /\ ProposalsOK /\ RunsOK

LEMMA Domains ==
    ASSUME Typed
    PROVE  /\ DOMAIN versions = Versions /\ DOMAIN runs = Runs /\ DOMAIN proposals = Proposals
           /\ Len(versions) \in Nat /\ Len(runs) \in Nat /\ Len(proposals) \in Nat
           /\ \A v \in Versions : versions[v] \in VersionRow
           /\ \A r \in Runs : runs[r] \in RunRow
           /\ \A p \in Proposals : proposals[p] \in ProposalRow
  BY LenProperties, ElementOfSeq DEF Typed, Versions, Runs, Proposals

LEMMA InitInv == Init => IInv
<1> SUFFICES ASSUME Init PROVE IInv
  OBVIOUS
<1> DEFINE first == [parent |-> None, proposal |-> None, request |-> Automatic]
           base == [version |-> 1, proposal |-> None, request |-> Automatic, ended |-> TRUE]
<1>1. first \in VersionRow /\ base \in RunRow
  BY DEF VersionRow, RunRow, None
<1>2. versions = <<first>> /\ runs = <<base>> /\ proposals = <<>>
  BY DEF Init
<1> HIDE DEF first, base
<1>3. versions \in Seq(VersionRow) /\ runs \in Seq(RunRow) /\ proposals \in Seq(ProposalRow)
  BY <1>1, <1>2
<1>4. Len(versions) = 1 /\ Len(runs) = 1 /\ Len(proposals) = 0 /\ versions[1] = first /\ runs[1] = base
  BY <1>2
<1>5. Idle \in SessionRow /\ Idle.at = "idle" /\ Idle.decisions = {}
  BY DEF Idle, SessionRow, None
<1>6. Typed /\ Named
  BY <1>3, <1>5 DEF Init, Typed, Named
<1>7. VersionsOK /\ ProposalsOK /\ RunsOK
  BY <1>4 DEF VersionsOK, ProposalsOK, RunsOK, Versions, Runs, Proposals, first, base, None
<1> QED
  BY <1>6, <1>7 DEF IInv

\* a session that starts to decide, ends, or goes on to the regression of p
LEMMA SessionMoves ==
    ASSUME Typed, Named, NEW u, Len(proposals') \in Nat, Len(proposals') >= Len(proposals),
           \/ session' = session
           \/ session' = [session EXCEPT ![u] = Idle]
           \/ session' = [session EXCEPT ![u] =
                 [at |-> "deciding", decisions |-> decisions, proposal |-> None]]
           \/ \E p \in Proposals :
                 session' = [session EXCEPT ![u] = [at |-> "accepted", decisions |-> {}, proposal |-> p]]
    PROVE  /\ session' \in [Users -> SessionRow]
           /\ \A w \in Users : /\ session'[w].decisions \subseteq Notes \cup Proposals'
                               /\ session'[w].at = "accepted" => session'[w].proposal \in Proposals'
<1>1. Proposals \subseteq Proposals' /\ Proposals \subseteq Nat
  <2>1. Len(proposals) \in Nat
    BY Domains
  <2>2. \A x \in 1..Len(proposals) : x \in 1..Len(proposals') /\ x \in Nat
    BY <2>1
  <2> QED
    BY <2>2 DEF Proposals
<1> DEFINE Good(new) == /\ new \in SessionRow
                        /\ new.decisions \subseteq Notes \cup Proposals
                        /\ new.at = "accepted" => new.proposal \in Proposals
<1>3. Good(Idle)
  BY DEF Idle, None, SessionRow
<1>4. Good([at |-> "deciding", decisions |-> decisions, proposal |-> None])
  <2>1. decisions \in SUBSET (Notes \cup Nat) /\ decisions \subseteq Notes \cup Proposals
    BY <1>1 DEF Named
  <2> QED
    BY <2>1 DEF SessionRow, None
<1>5. ASSUME NEW p \in Proposals PROVE Good([at |-> "accepted", decisions |-> {}, proposal |-> p])
  BY <1>1 DEF SessionRow
<1>6. ASSUME NEW new, Good(new), session' = [session EXCEPT ![u] = new]
      PROVE  /\ session' \in [Users -> SessionRow]
             /\ \A w \in Users : Good(session'[w])
  BY <1>6 DEF Typed, Named
<1>7. \A w \in Users : Good(session[w])
  BY DEF Typed, Named
<1> HIDE DEF Good
<1>8. session' \in [Users -> SessionRow] /\ \A w \in Users : Good(session'[w])
  BY <1>3, <1>4, <1>5, <1>6, <1>7 DEF Typed
<1> QED
  BY <1>1, <1>8 DEF Good

----------------------------------------------------------------------------
LEMMA AppendVersion ==
    ASSUME Typed, NEW new \in VersionRow, versions' = Append(versions, new)
    PROVE  /\ versions' \in Seq(VersionRow) /\ Len(versions') = Len(versions) + 1
           /\ Versions' = Versions \cup {Len(versions) + 1}
           /\ versions'[Len(versions) + 1] = new
           /\ \A v \in Versions : versions'[v] = versions[v] /\ v # Len(versions) + 1
  BY Domains DEF Typed, Versions

LEMMA AppendRun ==
    ASSUME Typed, NEW new \in RunRow, runs' = Append(runs, new)
    PROVE  /\ runs' \in Seq(RunRow) /\ Len(runs') = Len(runs) + 1
           /\ Runs' = Runs \cup {Len(runs) + 1}
           /\ runs'[Len(runs) + 1] = new
           /\ \A r \in Runs : runs'[r] = runs[r] /\ r # Len(runs) + 1
  BY Domains DEF Typed, Runs

LEMMA CaptureStep ==
    ASSUME IInv, NEW q \in Requests, Capture(q) PROVE IInv'
<1> DEFINE new == [parent |-> Latest, proposal |-> None, request |-> q]
<1>1. Typed /\ new \in VersionRow /\ new.parent = Len(versions) /\ new.proposal = None
  BY Domains DEF IInv, VersionRow, Latest, None
<1>2. versions' = Append(versions, new) /\ UNCHANGED <<runs, proposals, decisions, session>>
  BY DEF Capture
<1> HIDE DEF new
<1>3. /\ versions' \in Seq(VersionRow) /\ Versions' = Versions \cup {Len(versions) + 1}
      /\ versions'[Len(versions) + 1] = new
      /\ \A v \in Versions : versions'[v] = versions[v] /\ v # Len(versions) + 1
  BY <1>1, <1>2, AppendVersion
<1>4. Proposals' = Proposals /\ Runs' = Runs /\ Len(versions) \in Nat
  BY <1>1, <1>2, Domains DEF Proposals, Runs
<1>5. Typed' /\ Named'
  BY <1>2, <1>3, <1>4 DEF IInv, Typed, Named
<1>6. VersionsOK'
  <2>1. versions'[Len(versions) + 1].parent = Len(versions) + 1 - 1
        /\ versions'[Len(versions) + 1].proposal = None
    BY <1>1, <1>3, <1>4
  <2>2. ASSUME NEW v \in Versions
        PROVE  /\ versions'[v].parent = v - 1
               /\ versions'[v].proposal # None =>
                      /\ versions'[v].proposal \in Proposals
                      /\ proposals[versions'[v].proposal].status = "accepted"
                      /\ proposals[versions'[v].proposal].version = v
                      /\ runs[proposals[versions'[v].proposal].run].version = v - 1
    BY <1>3 DEF IInv, VersionsOK
  <2> QED
    <3>1. \A v \in Versions' : v \in Versions \/ v = Len(versions) + 1
      BY <1>3
    <3>2. \A v \in Versions' : versions'[v].parent = v - 1
      BY <2>1, <2>2, <3>1
    <3>3. \A v \in Versions' : versions'[v].proposal # None => v \in Versions
      BY <2>1, <3>1
    <3> QED
      BY <1>2, <1>4, <2>2, <3>2, <3>3 DEF VersionsOK
<1>7. ProposalsOK' /\ RunsOK'
  BY <1>2, <1>3, <1>4 DEF IInv, ProposalsOK, RunsOK
<1> QED
  BY <1>5, <1>6, <1>7 DEF IInv

\* a run is added: a person's, or the regression of an accepted proposal
LEMMA NewRun ==
    ASSUME IInv, NEW u, NEW new \in RunRow, runs' = Append(runs, new),
           UNCHANGED <<versions, proposals, decisions>>,
           session' = session \/ session' = [session EXCEPT ![u] = Idle],
           new.version \in Versions,
           new.proposal # None =>
               /\ new.proposal \in Proposals /\ proposals[new.proposal].status = "accepted"
               /\ proposals[new.proposal].version = new.version
               /\ \A r \in Runs : runs[r].proposal # new.proposal
    PROVE  IInv'
<1>1. /\ runs' \in Seq(RunRow) /\ Runs' = Runs \cup {Len(runs) + 1}
      /\ runs'[Len(runs) + 1] = new
      /\ \A r \in Runs : runs'[r] = runs[r] /\ r # Len(runs) + 1
  BY AppendRun DEF IInv
<1>2. Proposals' = Proposals /\ Versions' = Versions
  BY DEF Proposals, Versions
<1>3. Typed' /\ Named'
  <2>1. /\ session' \in [Users -> SessionRow]
        /\ \A w \in Users : /\ session'[w].decisions \subseteq Notes \cup Proposals'
                            /\ session'[w].at = "accepted" => session'[w].proposal \in Proposals'
    <3>1. Typed /\ Named /\ Len(proposals') = Len(proposals)
      BY DEF IInv
    <3>2. Len(proposals) \in Nat
      BY <3>1, Domains
    <3> QED
      BY <3>1, <3>2, SessionMoves
  <2> QED
    BY <1>1, <1>2, <2>1 DEF IInv, Typed, Named
<1>4. VersionsOK'
  BY <1>1, <1>2 DEF IInv, VersionsOK, ProposalsOK
<1>5. ProposalsOK'
  BY <1>1, <1>2 DEF IInv, ProposalsOK
<1>6. RunsOK'
  <2>1. \A r \in Runs' : /\ runs'[r].version \in Versions'
                         /\ runs'[r].proposal # None =>
                               /\ runs'[r].proposal \in Proposals'
                               /\ proposals'[runs'[r].proposal].status = "accepted"
                               /\ proposals'[runs'[r].proposal].version = runs'[r].version
    BY <1>1, <1>2 DEF IInv, RunsOK
  <2>2. ASSUME NEW r \in Runs', NEW q \in Runs',
               runs'[r].proposal # None, runs'[r].proposal = runs'[q].proposal
        PROVE  r = q
    <3>1. CASE r \in Runs /\ q \in Runs
      <4>1. runs'[r] = runs[r] /\ runs'[q] = runs[q]
        BY <1>1, <3>1
      <4>2. runs[r].proposal # None /\ runs[r].proposal = runs[q].proposal
        BY <2>2, <4>1
      <4> QED
        BY <3>1, <4>2 DEF IInv, RunsOK
    <3>2. CASE r \notin Runs \/ q \notin Runs
      BY <1>1, <2>2, <3>2
    <3> QED
      BY <3>1, <3>2
  <2> QED
    BY <2>1, <2>2 DEF RunsOK
<1> QED
  BY <1>3, <1>4, <1>5, <1>6 DEF IInv

LEMMA EvaluateStep ==
    ASSUME IInv, NEW v \in DOMAIN versions, NEW q \in Requests, Evaluate(v, q)
    PROVE  IInv'
<1> DEFINE new == [version |-> v, proposal |-> None, request |-> q, ended |-> FALSE]
<1>1. v \in Versions /\ v \in Nat \ {0}
  BY Domains DEF IInv, Versions
<1>2. new \in RunRow /\ new.version = v /\ new.proposal = None
  BY <1>1 DEF RunRow, None
<1>3. runs' = Append(runs, new) /\ UNCHANGED <<versions, proposals, decisions, session>>
  BY DEF Evaluate
<1> HIDE DEF new
<1> QED
  BY <1>1, <1>2, <1>3, NewRun

LEMMA RegressionStep ==
    ASSUME IInv, NEW p \in Proposals, NEW q \in Requests \cup {Automatic}, NEW u,
           StartRegression(p, q), UNCHANGED <<versions, proposals, decisions>>,
           session' = session \/ session' = [session EXCEPT ![u] = Idle]
    PROVE  IInv'
<1> DEFINE new == [version |-> proposals[p].version, proposal |-> p, request |-> q, ended |-> FALSE]
<1>1. proposals[p].version \in Versions /\ proposals[p].version \in Nat \ {0} /\ p \in Nat
  BY Domains DEF StartRegression, IInv, ProposalsOK, Versions, Proposals
<1>2. new \in RunRow /\ new.version = proposals[p].version /\ new.proposal = p
  BY <1>1 DEF RunRow
<1>3. runs' = Append(runs, new) /\ proposals[p].status = "accepted"
  BY DEF StartRegression
<1>4. \A r \in Runs : runs[r].proposal # p
  BY Domains DEF StartRegression, RegressionsOf, IInv
<1> HIDE DEF new
<1> QED
  BY <1>1, <1>2, <1>3, <1>4, NewRun

\* the end of a run
LEMMA EndStep ==
    ASSUME IInv, NEW r \in DOMAIN runs, RunEnds(r) PROVE IInv'
<1>1. r \in Runs /\ runs[r] \in RunRow /\ Len(runs) \in Nat
  BY Domains DEF IInv
<1>2. UNCHANGED <<versions, proposals, decisions, session>>
  BY DEF RunEnds
<1>3. /\ runs' \in Seq(RunRow) /\ Len(runs') = Len(runs)
      /\ \A q \in Runs : runs'[q].version = runs[q].version /\ runs'[q].proposal = runs[q].proposal
  <2> DEFINE new == [runs[r] EXCEPT !.ended = TRUE]
  <2>1. new \in RunRow /\ new.version = runs[r].version /\ new.proposal = runs[r].proposal
    BY <1>1 DEF RunRow
  <2>2. runs' = [runs EXCEPT ![r] = new]
    BY DEF RunEnds
  <2> HIDE DEF new
  <2>3. runs \in Seq(RunRow)
    BY DEF IInv, Typed
  <2> QED
    BY <1>1, <2>1, <2>2, <2>3, ExceptSeq DEF Runs
<1>4. Proposals' = Proposals /\ Versions' = Versions /\ Runs' = Runs
  BY <1>2, <1>3 DEF Proposals, Versions, Runs
<1>5. Typed' /\ Named'
  BY <1>2, <1>3, <1>4 DEF IInv, Typed, Named
<1>6. VersionsOK' /\ ProposalsOK'
  BY <1>2, <1>3, <1>4 DEF IInv, VersionsOK, ProposalsOK
<1>7. RunsOK'
  BY <1>2, <1>3, <1>4 DEF IInv, RunsOK
<1> QED
  BY <1>5, <1>6, <1>7 DEF IInv

\* a step of a session, or a note, on rows that stay
LEMMA QuietStep ==
    ASSUME IInv, NEW u, UNCHANGED <<versions, runs, proposals>>,
           \/ Open(u) \/ Drop(u)
           \/ \E p \in Proposals : Repeat(u, p)
           \/ AutoRegress(u)
           \/ \E n \in Notes : Note(n)
    PROVE  IInv'
<1>1. Typed /\ Named /\ Len(proposals') = Len(proposals) /\ Len(proposals) \in Nat
  BY Domains DEF IInv
<1>2. Proposals' = Proposals /\ Versions' = Versions /\ Runs' = Runs
  BY DEF Proposals, Versions, Runs
<1>3. /\ session' \in [Users -> SessionRow]
      /\ \A w \in Users : /\ session'[w].decisions \subseteq Notes \cup Proposals'
                          /\ session'[w].at = "accepted" => session'[w].proposal \in Proposals'
  BY <1>1, SessionMoves DEF Open, Drop, Repeat, AutoRegress, Note
<1>4. decisions' \subseteq Notes \cup Proposals
  BY <1>1 DEF Named, Open, Drop, Repeat, AutoRegress, Note
<1> QED
  BY <1>2, <1>3, <1>4 DEF IInv, Typed, Named, VersionsOK, ProposalsOK, RunsOK

Draft(r, q) == [run |-> r, request |-> q, status |-> "pending", version |-> None]

LEMMA DraftsAppended ==
    ASSUME IInv, NEW r \in DOMAIN runs, NEW q \in Requests, Generate(r, q)
    PROVE  /\ r \in Runs /\ Draft(r, q).run = r /\ Draft(r, q).status = "pending"
           /\ proposals' \in Seq(ProposalRow) /\ Len(proposals') = Len(proposals) + Drafts
           /\ Proposals \subseteq Proposals'
           /\ \A p \in Proposals : proposals'[p] = proposals[p]
           /\ \A p \in Proposals' : p \in Proposals \/ proposals'[p] = Draft(r, q)
<1> DEFINE draft == Draft(r, q)
           drafts == [i \in 1..Drafts |-> draft]
<1>1. r \in Runs /\ Len(proposals) \in Nat /\ r \in Nat \ {0}
  BY Domains DEF IInv, Runs
<1>2. draft \in ProposalRow /\ draft.run = r /\ draft.status = "pending"
  BY <1>1 DEF ProposalRow, None, Draft
<1>3. proposals' = proposals \o drafts
  BY DEF Generate, Draft
<1> HIDE DEF draft
<1>4. drafts \in Seq(ProposalRow) /\ Len(drafts) = Drafts /\ \A i \in 1..Drafts : drafts[i] = draft
  BY <1>2, BoundsAreNatural
<1> HIDE DEF drafts
<1>5. /\ proposals' \in Seq(ProposalRow) /\ Len(proposals') = Len(proposals) + Drafts
      /\ \A p \in Proposals' : IF p \in Proposals THEN proposals'[p] = proposals[p]
                                                  ELSE proposals'[p] = draft
  <2>1. proposals \in Seq(ProposalRow)
    BY DEF IInv, Typed
  <2>2. /\ proposals \o drafts \in Seq(ProposalRow)
        /\ Len(proposals \o drafts) = Len(proposals) + Drafts
        /\ \A i \in 1..(Len(proposals) + Drafts) : (proposals \o drafts)[i] =
               IF i <= Len(proposals) THEN proposals[i] ELSE drafts[i - Len(proposals)]
    BY <1>4, <2>1, ConcatProperties
  <2> QED
    BY <1>1, <1>3, <1>4, <2>2, BoundsAreNatural DEF Proposals
<1>6. Proposals \subseteq Proposals'
  BY <1>1, <1>5, BoundsAreNatural DEF Proposals
<1> QED
  BY <1>1, <1>2, <1>5, <1>6 DEF draft

LEMMA GenerateStep ==
    ASSUME IInv, NEW r \in DOMAIN runs, NEW q \in Requests, Generate(r, q)
    PROVE  IInv'
<1>1. /\ r \in Runs /\ Draft(r, q).run = r /\ Draft(r, q).status = "pending"
      /\ proposals' \in Seq(ProposalRow) /\ Proposals \subseteq Proposals'
      /\ \A p \in Proposals : proposals'[p] = proposals[p]
      /\ \A p \in Proposals' : p \in Proposals \/ proposals'[p] = Draft(r, q)
  BY DraftsAppended
<1>2. UNCHANGED <<versions, runs, decisions, session>>
  BY DEF Generate
<1>3. Versions' = Versions /\ Runs' = Runs
  BY <1>2 DEF Versions, Runs
<1>4. Typed' /\ Named'
  BY <1>1, <1>2 DEF IInv, Typed, Named
<1>5. VersionsOK'
  BY <1>1, <1>2, <1>3 DEF IInv, VersionsOK
<1>6. RunsOK'
  BY <1>1, <1>2, <1>3 DEF IInv, RunsOK
<1>7. ProposalsOK'
  BY <1>1, <1>2, <1>3 DEF IInv, ProposalsOK
<1> QED
  BY <1>4, <1>5, <1>6, <1>7 DEF IInv

----------------------------------------------------------------------------
(* Decisions *)

\* how proposals change under a decision: none is added, and what is decided stays
Decided(p, row) ==
    /\ proposals' \in Seq(ProposalRow) /\ Len(proposals') = Len(proposals)
    /\ proposals'[p] = row
    /\ \A o \in Proposals \ {p} :
           \/ proposals'[o] = proposals[o]
           \/ proposals[o].status = "pending" /\ proposals'[o] = [proposals[o] EXCEPT !.status = "rejected"]

LEMMA RejectDecides ==
    ASSUME IInv, NEW u \in Users, NEW p \in Proposals, Reject(u, p)
    PROVE  Decided(p, [proposals[p] EXCEPT !.status = "rejected"])
<1> DEFINE row == [proposals[p] EXCEPT !.status = "rejected"]
<1>1. proposals \in Seq(ProposalRow) /\ proposals[p] \in ProposalRow
  BY Domains DEF IInv, Typed
<1>2. row \in ProposalRow
  BY <1>1 DEF ProposalRow
<1>3. proposals' = [proposals EXCEPT ![p] = row]
  BY DEF Reject
<1> HIDE DEF row
<1>4. /\ proposals' \in Seq(ProposalRow) /\ Len(proposals') = Len(proposals)
      /\ \A o \in Proposals : proposals'[o] = IF o = p THEN row ELSE proposals[o]
  BY <1>1, <1>2, <1>3, ExceptSeq DEF Proposals
<1> QED
  BY <1>4 DEF Decided, row

LEMMA AcceptDecides ==
    ASSUME IInv, NEW u \in Users, NEW p \in Proposals, Accept(u, p)
    PROVE  Decided(p, [proposals[p] EXCEPT !.status = "accepted", !.version = Latest + 1])
<1> DEFINE row == [proposals[p] EXCEPT !.status = "accepted", !.version = Latest + 1]
           new(o) == IF o = p THEN row
                     ELSE IF o \in Siblings(p) /\ proposals[o].status = "pending"
                          THEN [proposals[o] EXCEPT !.status = "rejected"]
                     ELSE proposals[o]
<1>1. DOMAIN proposals = Proposals /\ Len(proposals) \in Nat /\ Len(versions) \in Nat
      /\ \A o \in Proposals : proposals[o] \in ProposalRow
  BY Domains DEF IInv
<1>2. row \in ProposalRow
  <2>1. proposals[p] \in ProposalRow /\ Latest + 1 \in Nat
    BY <1>1 DEF Latest
  <2>2. [proposals[p] EXCEPT !.status = "accepted"] \in ProposalRow
    BY <2>1 DEF ProposalRow
  <2> QED
    BY <2>1, <2>2 DEF ProposalRow
<1>3. proposals' = [o \in Proposals |-> new(o)]
  BY <1>1 DEF Accept
<1>4. \A o \in Proposals : new(o) \in ProposalRow
  BY <1>1, <1>2 DEF ProposalRow
<1>5. proposals' \in Seq(ProposalRow) /\ Len(proposals') = Len(proposals)
  BY <1>1, <1>3, <1>4 DEF Proposals
<1> QED
  BY <1>1, <1>3, <1>5 DEF Decided

LEMMA DecisionStep ==
    ASSUME IInv, NEW u \in Users, NEW p \in Proposals, Accept(u, p) \/ Reject(u, p)
    PROVE  IInv'
<1>1. /\ Len(proposals) \in Nat /\ Len(versions) \in Nat /\ Typed /\ Named
      /\ \A o \in Proposals : proposals[o] \in ProposalRow
  BY Domains DEF IInv
<1>2. /\ Undecided(p) /\ runs' = runs
      /\ decisions' = session[u].decisions \cup {p}
  BY DEF Accept, Reject, Record
<1>3. PICK row : Decided(p, row) /\ row.run = proposals[p].run
                 /\ \/ Accept(u, p) /\ row.status = "accepted" /\ row.version = Len(versions) + 1
                    \/ Reject(u, p) /\ row.status = "rejected"
  <2>1. proposals[p] \in ProposalRow
    BY <1>1
  <2>2. CASE Accept(u, p)
    <3> DEFINE new == [proposals[p] EXCEPT !.status = "accepted", !.version = Latest + 1]
    <3>1. Decided(p, new)
      BY <2>2, AcceptDecides
    <3>2. new.run = proposals[p].run /\ new.status = "accepted" /\ new.version = Len(versions) + 1
      BY <2>1 DEF ProposalRow, Latest
    <3> HIDE DEF new
    <3> QED
      BY <2>2, <3>1, <3>2
  <2>3. CASE Reject(u, p)
    <3> DEFINE new == [proposals[p] EXCEPT !.status = "rejected"]
    <3>1. Decided(p, new)
      BY <2>3, RejectDecides
    <3>2. new.run = proposals[p].run /\ new.status = "rejected"
      BY <2>1 DEF ProposalRow
    <3> HIDE DEF new
    <3> QED
      BY <2>3, <3>1, <3>2
  <2> QED
    BY <2>2, <2>3
<1>4. Proposals' = Proposals /\ Runs' = Runs /\ Len(proposals') = Len(proposals)
  BY <1>2, <1>3 DEF Decided, Proposals, Runs
<1>5. /\ proposals'[p] = row
      /\ \A o \in Proposals : proposals'[o].run = proposals[o].run
      /\ \A o \in Proposals \ {p} : /\ proposals'[o].version = proposals[o].version
                                    /\ proposals'[o].status = "accepted" <=> proposals[o].status = "accepted"
      /\ proposals[p].status = "pending"
  <2>1. \A o \in Proposals \ {p} :
            /\ proposals'[o].version = proposals[o].version /\ proposals'[o].run = proposals[o].run
            /\ proposals'[o].status = "accepted" <=> proposals[o].status = "accepted"
    BY <1>1, <1>3 DEF Decided, ProposalRow
  <2> QED
    BY <1>2, <1>3, <2>1 DEF Decided, Undecided
<1>6. Named' /\ session' \in [Users -> SessionRow]
  <2>1. /\ session' \in [Users -> SessionRow]
        /\ \A w \in Users : /\ session'[w].decisions \subseteq Notes \cup Proposals'
                            /\ session'[w].at = "accepted" => session'[w].proposal \in Proposals'
    <3>1. \/ session' = [session EXCEPT ![u] = Idle]
          \/ session' = [session EXCEPT ![u] = [at |-> "accepted", decisions |-> {}, proposal |-> p]]
      BY DEF Accept, Reject
    <3> QED
      BY <1>1, <1>4, <3>1, SessionMoves
  <2>2. decisions' \subseteq Notes \cup Proposals
    BY <1>1, <1>2 DEF Named
  <2> QED
    BY <1>4, <2>1, <2>2 DEF Named
<1>7. CASE Accept(u, p)
  <2> DEFINE new == [parent |-> runs[proposals[p].run].version, proposal |-> p, request |-> Automatic]
  <2>1. runs[proposals[p].run].version = Len(versions) /\ proposals[p].run \in Runs
        /\ row.status = "accepted" /\ row.version = Len(versions) + 1
    BY <1>3, <1>5, <1>7 DEF Accept, Acceptable, Latest, IInv, ProposalsOK, Reject
  <2>2. new \in VersionRow /\ new.parent = Len(versions) /\ new.proposal = p /\ p # None
    BY <1>1, <2>1 DEF VersionRow, Proposals, None
  <2>3. versions' = Append(versions, new)
    BY <1>7 DEF Accept
  <2> HIDE DEF new
  <2>4. /\ versions' \in Seq(VersionRow) /\ Versions' = Versions \cup {Len(versions) + 1}
        /\ versions'[Len(versions) + 1] = new
        /\ \A v \in Versions : versions'[v] = versions[v] /\ v # Len(versions) + 1
    BY <1>1, <2>2, <2>3, AppendVersion
  <2>5. Typed'
    BY <1>1, <1>2, <1>3, <1>6, <2>4 DEF Typed, Decided
  <2>6. VersionsOK'
    <3>1. ASSUME NEW v \in Versions
          PROVE  /\ versions'[v].parent = v - 1
                 /\ versions'[v].proposal # None =>
                        /\ versions'[v].proposal \in Proposals
                        /\ proposals'[versions'[v].proposal].status = "accepted"
                        /\ proposals'[versions'[v].proposal].version = v
                        /\ runs[proposals'[versions'[v].proposal].run].version = v - 1
      <4>1. versions'[v] = versions[v]
        BY <2>4
      <4>2. versions[v].proposal # None => versions[v].proposal \in Proposals \ {p}
        BY <1>5 DEF IInv, VersionsOK
      <4> QED
        BY <1>5, <4>1, <4>2 DEF IInv, VersionsOK
    <3>2. LET v == Len(versions) + 1 IN
          /\ versions'[v].parent = v - 1 /\ versions'[v].proposal = p
          /\ proposals'[p].status = "accepted" /\ proposals'[p].version = v
          /\ runs[proposals'[p].run].version = v - 1
      BY <1>1, <1>5, <2>1, <2>2, <2>4
    <3> QED
      BY <1>2, <1>4, <2>4, <3>1, <3>2 DEF VersionsOK
  <2>7. ProposalsOK'
    <3>1. ASSUME NEW o \in Proposals \ {p}
          PROVE  /\ proposals'[o].run \in Runs
                 /\ proposals'[o].status = "accepted" =>
                        /\ proposals'[o].version \in Versions
                        /\ versions[proposals'[o].version].proposal = o
      BY <1>5 DEF IInv, ProposalsOK
    <3>2. proposals'[p].run \in Runs /\ proposals'[p].version = Len(versions) + 1
          /\ versions'[Len(versions) + 1].proposal = p
      BY <1>5, <2>1, <2>2, <2>4
    <3> QED
      BY <1>2, <1>4, <2>4, <3>1, <3>2 DEF ProposalsOK
  <2>8. RunsOK'
    <3>1. ASSUME NEW r \in Runs, runs[r].proposal # None
          PROVE  /\ runs[r].proposal \in Proposals
                 /\ proposals'[runs[r].proposal].status = "accepted"
                 /\ proposals'[runs[r].proposal].version = runs[r].version
      BY <1>5, <3>1 DEF IInv, RunsOK
    <3> QED
      BY <1>2, <1>4, <2>4, <3>1 DEF IInv, RunsOK
  <2> QED
    BY <1>6, <2>5, <2>6, <2>7, <2>8 DEF IInv
<1>8. CASE Reject(u, p)
  <2>1. versions' = versions /\ Versions' = Versions
    BY <1>8 DEF Reject, Versions
  <2>2. Typed'
    BY <1>1, <1>2, <1>3, <1>6, <2>1 DEF Typed, Decided
  <2>3. row.status # "accepted"
    <3>1. CASE versions' # versions
      BY <2>1, <3>1
    <3>2. CASE ~Accept(u, p)
      BY <1>3, <3>2
    <3>3. Accept(u, p) => Len(versions') = Len(versions) + 1
      BY <1>1 DEF Accept, Typed
    <3> QED
      BY <1>1, <2>1, <3>2, <3>3
  <2>4. VersionsOK'
    <3>1. ASSUME NEW v \in Versions, versions[v].proposal # None
          PROVE  /\ versions[v].proposal \in Proposals
                 /\ proposals'[versions[v].proposal].status = "accepted"
                 /\ proposals'[versions[v].proposal].version = v
                 /\ runs[proposals'[versions[v].proposal].run].version = v - 1
      <4>1. versions[v].proposal \in Proposals \ {p}
        BY <1>5, <3>1 DEF IInv, VersionsOK
      <4> QED
        BY <1>5, <3>1, <4>1 DEF IInv, VersionsOK
    <3> QED
      BY <1>2, <1>4, <2>1, <3>1 DEF IInv, VersionsOK
  <2>5. ProposalsOK'
    <3>1. proposals'[p].status # "accepted"
      BY <1>5, <2>3
    <3> QED
      BY <1>2, <1>4, <1>5, <2>1, <3>1 DEF IInv, ProposalsOK
  <2>6. RunsOK'
    <3>1. ASSUME NEW r \in Runs, runs[r].proposal # None
          PROVE  /\ runs[r].proposal \in Proposals
                 /\ proposals'[runs[r].proposal].status = "accepted"
                 /\ proposals'[runs[r].proposal].version = runs[r].version
      BY <1>5, <3>1 DEF IInv, RunsOK
    <3> QED
      BY <1>2, <1>4, <2>1, <3>1 DEF IInv, RunsOK
  <2> QED
    BY <1>6, <2>2, <2>4, <2>5, <2>6 DEF IInv
<1> QED
  BY <1>7, <1>8

----------------------------------------------------------------------------
LEMMA StepInv == IInv /\ [Next]_vars => IInv'
<1> SUFFICES ASSUME IInv, [Next]_vars PROVE IInv'
  OBVIOUS
<1>1. CASE UNCHANGED vars
  BY <1>1 DEF vars, IInv, Typed, Named, VersionsOK, ProposalsOK, RunsOK, Versions, Runs, Proposals
<1>2. DOMAIN proposals = Proposals /\ DOMAIN runs = Runs
  BY Domains DEF IInv
<1>3. CASE Next
  <2>1. ASSUME NEW p \in Proposals, NEW q \in Requests, Regress(p, q) PROVE IInv'
    BY <2>1, RegressionStep DEF Regress
  <2>2. ASSUME NEW w \in Users, AutoRegress(w) PROVE IInv'
    <3>1. CASE UNCHANGED runs
      BY <2>2, <3>1, QuietStep DEF AutoRegress
    <3>2. CASE StartRegression(session[w].proposal, Automatic)
      <4>1. session[w].proposal \in Proposals
        BY <2>2 DEF AutoRegress, IInv, Named
      <4> QED
        BY <2>2, <3>2, <4>1, RegressionStep DEF AutoRegress
    <3> QED
      BY <2>2, <3>1, <3>2 DEF AutoRegress
  <2>3. ASSUME NEW w \in Users, Open(w) \/ Drop(w) PROVE IInv'
    BY <2>3, QuietStep DEF Open, Drop
  <2>4. ASSUME NEW w \in Users, NEW p \in Proposals, Repeat(w, p) PROVE IInv'
    BY <2>4, QuietStep DEF Repeat
  <2>5. ASSUME NEW n \in Notes, Note(n) PROVE IInv'
    BY <2>5, QuietStep DEF Note
  <2> QED
    BY <1>2, <1>3, <2>1, <2>2, <2>3, <2>4, <2>5, CaptureStep, EvaluateStep, GenerateStep, EndStep,
       DecisionStep DEF Next
<1> QED
  BY <1>1, <1>3

LEMMA Invariance == Spec => []IInv
<1> QED
  BY InitInv, StepInv, PTL DEF Spec

(* Every row keeps its type and every decision names a note or a proposal. *)
THEOREM TypeCorrect == Spec => []TypeOK
<1>1. IInv => TypeOK
  BY Domains DEF IInv, Typed, Named, SessionRow, TypeOK
<1> QED
  BY Invariance, <1>1, PTL

(* The versions of a project are a chain, whoever captures or accepts what *)
(* at the same time (create_version, decide).                              *)
THEOREM NoBranches == Spec => []VersionsAreAChain
<1>1. IInv => VersionsAreAChain
  BY Domains DEF IInv, VersionsOK, VersionsAreAChain
<1> QED
  BY Invariance, <1>1, PTL

(* An accepted proposal and the version made from it name each other, and  *)
(* a version gives rise to one acceptance (decide).                        *)
THEOREM OneAcceptance == Spec => []AcceptedIsOneVersion
<1>1. ASSUME IInv PROVE AcceptedIsOneVersion
  <2>1. DOMAIN versions = Versions /\ DOMAIN proposals = Proposals /\ None \notin Proposals
    BY <1>1, Domains DEF IInv, Proposals, None
  <2>2. ASSUME NEW p \in Proposals, proposals[p].status = "accepted"
        PROVE  /\ proposals[p].version \in Versions
               /\ versions[proposals[p].version].proposal = p
               /\ versions[proposals[p].version].parent = proposals[p].version - 1
               /\ runs[proposals[p].run].version = proposals[p].version - 1
    BY <1>1, <2>1, <2>2 DEF IInv, ProposalsOK, VersionsOK
  <2>3. ASSUME NEW p \in Proposals, NEW v \in Versions, versions[v].proposal = p
        PROVE  proposals[p].status = "accepted"
    BY <1>1, <2>1, <2>3 DEF IInv, VersionsOK
  <2>4. ASSUME NEW p \in Proposals, NEW o \in Proposals,
               proposals[p].status = "accepted", proposals[o].status = "accepted",
               runs[proposals[p].run].version = runs[proposals[o].run].version
        PROVE  p = o
    <3>1. proposals[p].version = proposals[o].version
      BY <2>2, <2>4 DEF Versions
    <3> QED
      BY <2>2, <2>4, <3>1
  <2> QED
    BY <2>1, <2>2, <2>3, <2>4 DEF AcceptedIsOneVersion
<1> QED
  BY Invariance, <1>1, PTL

(* An accepted proposal is run again once, over its own version, whichever *)
(* of the two ways asks for it (regression).                               *)
THEOREM RegressedOnce == Spec => []OneRegression
<1>1. IInv => OneRegression
  BY Domains DEF IInv, RunsOK, OneRegression, RegressionsOf
<1> QED
  BY Invariance, <1>1, PTL

(* A review is final: no step removes a proposal or changes one that is    *)
(* decided (generate, decide).                                             *)
THEOREM FinalReview == Spec => ReviewIsFinal
<1>1. ASSUME IInv, Next, NEW p \in Proposals
      PROVE  p \in Proposals' /\ (proposals[p].status # "pending" => proposals'[p] = proposals[p])
  <2>1. DOMAIN proposals = Proposals /\ DOMAIN runs = Runs
    BY <1>1, Domains DEF IInv
  <2>2. CASE proposals' = proposals
    BY <2>2 DEF Proposals
  <2>3. ASSUME NEW r \in DOMAIN runs, NEW q \in Requests, Generate(r, q)
        PROVE  p \in Proposals' /\ (proposals[p].status # "pending" => proposals'[p] = proposals[p])
    BY <1>1, <2>3, DraftsAppended
  <2>4. ASSUME NEW u \in Users, NEW o \in Proposals, NEW row, Decided(o, row), Undecided(o)
        PROVE  p \in Proposals' /\ (proposals[p].status # "pending" => proposals'[p] = proposals[p])
    BY <1>1, <2>4 DEF Decided, Undecided, Proposals
  <2> QED
    BY <1>1, <2>1, <2>2, <2>3, <2>4, AcceptDecides, RejectDecides
       DEF Next, Capture, Evaluate, Open, Drop, AutoRegress, Accept, Reject, Repeat, Note, Regress, RunEnds
<1>2. ASSUME IInv, [Next]_vars
      PROVE  [\A p \in DOMAIN proposals :
                  /\ p \in DOMAIN proposals'
                  /\ proposals[p].status # "pending" => proposals'[p] = proposals[p]]_vars
  <2>1. DOMAIN proposals = Proposals /\ DOMAIN proposals' = Proposals'
    <3>1. Typed /\ Typed'
      BY <1>2, StepInv DEF IInv
    <3> QED
      BY <3>1, LenProperties DEF Typed, Proposals
  <2> QED
    BY <1>1, <1>2, <2>1
<1> QED
  BY Invariance, <1>2, PTL DEF Spec, ReviewIsFinal
==============================================================================
