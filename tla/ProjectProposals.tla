-------------------------- MODULE ProjectProposals --------------------------
(***************************************************************************)
(* Versions, optimisation proposals and regressions of one agent project:  *)
(* a model proposes changes for an ended run, a person accepts or rejects  *)
(* each, an accepted one becomes the next version, and the version is run  *)
(* again over the cases of the run it came from.                           *)
(*                                                                         *)
(* Code: backend/app/services/agent_project_proposals.py, the version      *)
(* operations of agent_project_service.py, record_decision in              *)
(* agent_project_practice.py and the routes that call them.                *)
(*                                                                         *)
(* Every operation works under the project's row lock, on rows it loads    *)
(* under that lock, except the list of decisions in decide, which is the   *)
(* one loaded before it.  A version, a run and a proposal are known by     *)
(* their place in the order of creation; what a version contains, a case   *)
(* or a patch says, is left out.                                           *)
(***************************************************************************)
EXTENDS Naturals, Sequences, FiniteSets

CONSTANTS
    MaxVersions, MaxRuns, MaxProposals,  \* bounds on the rows
    Drafts,        \* proposals a model call returns (2-3 in the code)
    Requests,      \* request ids clients choose: captures, generations, regressions
    Notes,         \* decisions that people record themselves
    Users          \* open decision requests

ASSUME BoundsAreNatural ==
    MaxVersions \in Nat /\ MaxRuns \in Nat /\ MaxProposals \in Nat /\ Drafts \in Nat
ASSUME NotesAreDistinct == Notes \cap Nat = {}

Automatic == "automatic"     \* the request id that decide derives from the proposal
None == 0

VARIABLES
    versions,   \* <<[parent, proposal, request]>>, the version number is the place
    runs,       \* <<[version, proposal, request, ended]>>
    proposals,  \* <<[run, request, status, version]>>, comparison_json.proposals of its run
    decisions,  \* decisions_json: notes, and the proposals decided on
    session     \* per user: what a decision request has loaded and still has to do

vars == <<versions, runs, proposals, decisions, session>>

VersionRow == [parent: Nat, proposal: Nat, request: Requests \cup {Automatic}]
RunRow == [version: Nat \ {0}, proposal: Nat, request: Requests \cup {Automatic}, ended: BOOLEAN]
ProposalRow == [run: Nat \ {0}, request: Requests, status: {"pending", "accepted", "rejected"},
                version: Nat]

Idle == [at |-> "idle", decisions |-> {}, proposal |-> None]

TypeOK ==
    /\ versions \in Seq(VersionRow)
    /\ runs \in Seq(RunRow)
    /\ proposals \in Seq(ProposalRow)
    /\ decisions \subseteq Notes \cup DOMAIN proposals
    /\ session \in [Users -> [at: {"idle", "deciding", "accepted"},
                              decisions: SUBSET (Notes \cup Nat), proposal: Nat]]

(* A project with its first version and the baseline run over it, ended,   *)
(* with failed cases that a model can propose changes for.                 *)
Init ==
    /\ versions = <<[parent |-> None, proposal |-> None, request |-> Automatic]>>
    /\ runs = <<[version |-> 1, proposal |-> None, request |-> Automatic, ended |-> TRUE]>>
    /\ proposals = <<>>
    /\ decisions = {}
    /\ session = [u \in Users |-> Idle]

Latest == Len(versions)

----------------------------------------------------------------------------
(* create_version: a retried request returns its version, an unchanged     *)
(* agent returns the latest; otherwise the agent's present configuration   *)
(* is appended.                                                            *)
Capture(q) ==
    /\ Latest < MaxVersions
    /\ \A v \in DOMAIN versions : versions[v].request # q
    /\ versions' = Append(versions, [parent |-> Latest, proposal |-> None, request |-> q])
    /\ UNCHANGED <<runs, proposals, decisions, session>>

(* create_run: a person evaluates any version; a retried request returns   *)
(* its run.                                                                *)
Evaluate(v, q) ==
    /\ Len(runs) < MaxRuns
    /\ \A r \in DOMAIN runs : runs[r].request # q
    /\ runs' = Append(runs, [version |-> v, proposal |-> None, request |-> q, ended |-> FALSE])
    /\ UNCHANGED <<versions, proposals, decisions, session>>

(* generate, after the analysis and the model call: a request that has     *)
(* already left proposals on the run returns them.                         *)
Generate(r, q) ==
    /\ runs[r].ended
    /\ Len(proposals) + Drafts <= MaxProposals
    /\ \A p \in DOMAIN proposals : ~(proposals[p].run = r /\ proposals[p].request = q)
    /\ proposals' = proposals \o [i \in 1..Drafts |->
          [run |-> r, request |-> q, status |-> "pending", version |-> None]]
    /\ UNCHANGED <<versions, runs, decisions, session>>

\* decide loads the project, with its decisions, and goes on to wait for the lock
Open(u) ==
    /\ session[u].at = "idle"
    /\ session' = [session EXCEPT ![u] =
          [at |-> "deciding", decisions |-> decisions, proposal |-> None]]
    /\ UNCHANGED <<versions, runs, proposals, decisions>>

\* the client is gone, the decision is refused, or the process dies
Drop(u) ==
    /\ session[u].at # "idle"
    /\ session' = [session EXCEPT ![u] = Idle]
    /\ UNCHANGED <<versions, runs, proposals, decisions>>

Siblings(p) == {o \in DOMAIN proposals \ {p} : proposals[o].run = proposals[p].run}

\* a version was already made from a proposal of this run's version
HasCandidate(v) == \E w \in DOMAIN versions : versions[w].parent = v /\ versions[w].proposal # None

\* mutant: only the run's own proposals are looked at, not the versions
Acceptable_Siblings(p) == \A o \in Siblings(p) : proposals[o].status # "accepted"

\* what the acceptance of a pending proposal requires
Acceptable(p) == LET source == runs[proposals[p].run].version IN
    /\ ~HasCandidate(source)
    /\ \A o \in Siblings(p) : proposals[o].status # "accepted"
    /\ Latest = source

\* mutant: a rejected proposal can still be accepted
Undecided_Rejected(p) == proposals[p].status # "accepted"

Undecided(p) == proposals[p].status = "pending"

\* the decision is appended to the list that was loaded before the lock
Record(u, p) == decisions' = session[u].decisions \cup {p}

(* decide, accepted: the next version, the decision and the rejection of   *)
(* the pending siblings are one transaction; the route then asks for the   *)
(* regression in a second one.                                             *)
Accept(u, p) ==
    /\ session[u].at = "deciding"
    /\ Undecided(p)
    /\ Latest < MaxVersions
    /\ Acceptable(p)
    /\ versions' = Append(versions, [parent |-> runs[proposals[p].run].version,
                                     proposal |-> p, request |-> Automatic])
    /\ proposals' = [o \in DOMAIN proposals |->
          IF o = p THEN [proposals[p] EXCEPT !.status = "accepted", !.version = Latest + 1]
          ELSE IF o \in Siblings(p) /\ proposals[o].status = "pending"
               THEN [proposals[o] EXCEPT !.status = "rejected"]
          ELSE proposals[o]]
    /\ Record(u, p)
    /\ session' = [session EXCEPT ![u] = [at |-> "accepted", decisions |-> {}, proposal |-> p]]
    /\ UNCHANGED runs

\* mutant: an accepted proposal can be rejected afterwards
Reject_Decided(u, p) ==
    /\ session[u].at = "deciding"
    /\ proposals' = [proposals EXCEPT ![p].status = "rejected"]
    /\ Record(u, p)
    /\ session' = [session EXCEPT ![u] = Idle]
    /\ UNCHANGED <<versions, runs>>

Reject(u, p) ==
    /\ session[u].at = "deciding"
    /\ Undecided(p)
    /\ proposals' = [proposals EXCEPT ![p].status = "rejected"]
    /\ Record(u, p)
    /\ session' = [session EXCEPT ![u] = Idle]
    /\ UNCHANGED <<versions, runs>>

\* the same decision again is answered as before; an acceptance goes on to the regression
Repeat(u, p) ==
    /\ session[u].at = "deciding"
    /\ proposals[p].status = "accepted"
    /\ session' = [session EXCEPT ![u] = [at |-> "accepted", decisions |-> {}, proposal |-> p]]
    /\ UNCHANGED <<versions, runs, proposals, decisions>>

\* record_decision refreshes the list under the lock
Note(n) ==
    /\ n \notin decisions
    /\ decisions' = decisions \cup {n}
    /\ UNCHANGED <<versions, runs, proposals, session>>

----------------------------------------------------------------------------
RegressionsOf(p) == {r \in DOMAIN runs : runs[r].proposal = p}

\* mutant: a proposal that was run again under another request id is run once more
StartRegression_PerRequest(p, q) ==
    /\ Len(runs) < MaxRuns
    /\ proposals[p].status = "accepted"
    /\ \A r \in DOMAIN runs : runs[r].request # q
    /\ runs[proposals[p].run].ended
    /\ runs' = Append(runs, [version |-> proposals[p].version, proposal |-> p,
                             request |-> q, ended |-> FALSE])

\* regression of an accepted proposal: neither its request nor it has a run yet
StartRegression(p, q) ==
    /\ Len(runs) < MaxRuns
    /\ proposals[p].status = "accepted"
    /\ q # Automatic => \A r \in DOMAIN runs : runs[r].request # q
    /\ RegressionsOf(p) = {}
    /\ runs[proposals[p].run].ended
    /\ runs' = Append(runs, [version |-> proposals[p].version, proposal |-> p,
                             request |-> q, ended |-> FALSE])

\* the second half of an accepting request: the run, or the one there is
AutoRegress(u) ==
    /\ session[u].at = "accepted"
    /\ \/ StartRegression(session[u].proposal, Automatic)
       \/ RegressionsOf(session[u].proposal) # {} /\ UNCHANGED runs
    /\ session' = [session EXCEPT ![u] = Idle]
    /\ UNCHANGED <<versions, proposals, decisions>>

\* the regression route, with a request id of the client's
Regress(p, q) ==
    /\ StartRegression(p, q)
    /\ UNCHANGED <<versions, proposals, decisions, session>>

\* execute_run has ended the run with all its cases
RunEnds(r) ==
    /\ ~runs[r].ended
    /\ runs' = [runs EXCEPT ![r].ended = TRUE]
    /\ UNCHANGED <<versions, proposals, decisions, session>>

Next ==
    \/ \E q \in Requests : Capture(q)
    \/ \E v \in DOMAIN versions, q \in Requests : Evaluate(v, q)
    \/ \E r \in DOMAIN runs, q \in Requests : Generate(r, q)
    \/ \E u \in Users : Open(u) \/ Drop(u) \/ AutoRegress(u)
    \/ \E u \in Users, p \in DOMAIN proposals : Accept(u, p) \/ Reject(u, p) \/ Repeat(u, p)
    \/ \E n \in Notes : Note(n)
    \/ \E p \in DOMAIN proposals, q \in Requests : Regress(p, q)
    \/ \E r \in DOMAIN runs : RunEnds(r)

Spec == Init /\ [][Next]_vars

----------------------------------------------------------------------------
(* Properties *)

(* The versions of a project are a chain, whether a version comes from the *)
(* agent or from a proposal: nothing ever branches off an older version    *)
(* (create_version, the checks of decide).                                 *)
VersionsAreAChain ==
    \A v \in DOMAIN versions : versions[v].parent = v - 1

(* A version carries the proposal it was made from exactly when that       *)
(* proposal is accepted and names the version, and one proposal is         *)
(* accepted per source version, although acceptances are retried, two      *)
(* people decide at once and several runs share a version (decide).        *)
AcceptedIsOneVersion ==
    /\ \A p \in DOMAIN proposals :
          proposals[p].status = "accepted" <=>
              \E v \in DOMAIN versions : versions[v].proposal = p
    /\ \A p \in DOMAIN proposals : proposals[p].status = "accepted" =>
          /\ versions[proposals[p].version].proposal = p
          /\ versions[proposals[p].version].parent = runs[proposals[p].run].version
    /\ \A p, o \in DOMAIN proposals :
          proposals[p].status = "accepted" /\ proposals[o].status = "accepted"
          /\ runs[proposals[p].run].version = runs[proposals[o].run].version => p = o

(* An accepted proposal is run again once, over its own version, whichever *)
(* of the two ways asks for it, how often, and with what request id        *)
(* (regression).                                                           *)
OneRegression ==
    \A r \in DOMAIN runs : runs[r].proposal # None =>
        /\ RegressionsOf(runs[r].proposal) = {r}
        /\ runs[r].version = proposals[runs[r].proposal].version
        /\ proposals[runs[r].proposal].status = "accepted"

(* A review is final: proposals do not disappear, and one that is decided  *)
(* stays as it was decided ("pending -> accepted / rejected" only).        *)
ReviewIsFinal ==
    [][\A p \in DOMAIN proposals :
          /\ p \in DOMAIN proposals'
          /\ proposals[p].status # "pending" => proposals'[p] = proposals[p]]_vars
=============================================================================
