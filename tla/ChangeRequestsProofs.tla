------------------------ MODULE ChangeRequestsProofs ------------------------
(***************************************************************************)
(* Proofs about ChangeRequests, for every plan, every trace of tickets to  *)
(* stories, every gate threshold and any number of calls: what a change    *)
(* request may touch, and what its decision promises about the artifacts   *)
(* and the deployment, whatever earlier calls left half done.              *)
(***************************************************************************)
EXTENDS ChangeRequests, TLAPS

\* Where no change request is under way.
Quiet == {"idle", "verdict", "opsTriage", "rollbackGate", "fix"}

\* The store is what it was when the request came in.
Untouched == before = [state |-> state, version |-> version]

\* An artifact the current request made again.
Done(a) == state[a] = "approved" /\ version[a] > before.version[a]

\* A request writes nothing before the PRD is amended, and a refused one
\* writes nothing at all.
NothingYet ==
    \/ pc \in {"triage", "impact", "budgetGate", "amend"}
    \/ blast = {}
    \/ decision \in {"rejected", "deferred"}
    => Untouched

\* The blast radius is that of the affected tickets, as they still are.
Scope ==
    blast # {} =>
        /\ PRD \in blast
        /\ \A t \in Tickets : Ticket(t) \in blast <=> t \in Affected
        /\ \A t \in Tickets : Code(t) \in blast => t \in Affected
        /\ DOCS \in blast <=> wasShipped
        /\ RELEASE \in blast <=> wasShipped

\* What each point of the call knows of the request.
Progress ==
    /\ pending \subseteq Affected
    /\ wasShipped => blast # {}
    /\ pc \in {"triage", "impact"} => blast = {}
    /\ pc \in {"budgetGate", "amend"} => pending = Affected
    /\ pc \in {"budgetGate", "amend", "rerun", "reship", "docs"} => blast # {}
    /\ pc \in {"triage", "impact", "budgetGate", "amend", "reship", "docs"} =>
           decision = "accepted"
    /\ pc = "rerun" => decision \in {"accepted", "escalated"}
    /\ pc \in {"reship", "docs"} => pending = {} /\ wasShipped /\ EnableShip
    /\ pc \in Quiet /\ decision = "accepted" /\ blast # {} => pending = {}

\* Versions only grow during a request.
Grown == \A a \in Artifacts : before.version[a] <= version[a]

\* As long as the request is not escalated, every affected ticket that is no
\* longer pending has been made again, with its code.
Rebuilt ==
    decision = "accepted" /\ blast # {} =>
        \A t \in Affected \ pending : Done(Ticket(t)) /\ Done(Code(t))

\* The patch release is made and in production before the docs are refreshed.
Reshipped ==
    decision = "accepted" /\ wasShipped /\ EnableShip /\ pc \in Quiet \cup {"docs"} =>
        /\ Done(RELEASE) /\ deployed = version[RELEASE]
        /\ pc # "docs" => Done(DOCS)

ChangeInv ==
    /\ NothingYet /\ Scope /\ Progress /\ Grown
    /\ Rebuilt /\ Reshipped /\ OnlyBlastRadiusTouched

IInv == TypeOK /\ ChangeInv

-----------------------------------------------------------------------------
(* Artifacts, and what the operators on the store do to them               *)

\* The artifacts of the model are distinct from one another.
LEMMA Kinds ==
    /\ PRD \in Artifacts /\ RELEASE \in Artifacts /\ DOCS \in Artifacts
    /\ PRD # RELEASE /\ PRD # DOCS /\ RELEASE # DOCS
    /\ \A t \in Tickets :
        /\ Ticket(t) \in Artifacts /\ Code(t) \in Artifacts
        /\ Ticket(t) \notin {PRD, RELEASE, DOCS}
        /\ Code(t) \notin {PRD, RELEASE, DOCS}
        /\ \A u \in Tickets :
            /\ Ticket(t) # Code(u)
            /\ Ticket(t) = Ticket(u) => t = u
            /\ Code(t) = Code(u) => t = u
<1>1. \A t \in Tickets : Ticket(t) \in Artifacts /\ Code(t) \in Artifacts
    BY DEF Artifacts
<1>2. \A t, u \in Tickets :
        /\ Ticket(t) # Code(u)
        /\ Ticket(t) = Ticket(u) => t = u
        /\ Code(t) = Code(u) => t = u
    BY DEF Ticket, Code
<1>3. \A t \in Tickets : /\ Ticket(t) \notin {PRD, RELEASE, DOCS}
                         /\ Code(t) \notin {PRD, RELEASE, DOCS}
    BY DEF Ticket, Code, PRD, RELEASE, DOCS
<1>4. PRD # RELEASE /\ PRD # DOCS /\ RELEASE # DOCS
    BY DEF PRD, RELEASE, DOCS
<1>5. PRD \in Artifacts /\ RELEASE \in Artifacts /\ DOCS \in Artifacts
    BY DEF Artifacts
<1> QED BY <1>1, <1>2, <1>3, <1>4, <1>5

LEMMA KindOf ==
    ASSUME NEW a \in Artifacts
    PROVE  \/ a \in {PRD, RELEASE, DOCS}
           \/ \E t \in Tickets : a = Ticket(t) \/ a = Code(t)
BY DEF Artifacts

\* Renew approves a new version of each artifact of S and leaves the others.
LEMMA RenewEffect ==
    ASSUME TypeOK, NEW S, Renew(S)
    PROVE  /\ state' \in [Artifacts -> Statuses]
           /\ version' \in [Artifacts -> Nat]
           /\ \A a \in Artifacts : a \in S =>
                state'[a] = "approved" /\ version'[a] = version[a] + 1
           /\ \A a \in Artifacts : a \notin S =>
                state'[a] = state[a] /\ version'[a] = version[a]
<1>1. state' \in [Artifacts -> Statuses]
    BY DEF Renew, TypeOK, Statuses
<1>2. version' \in [Artifacts -> Nat]
    BY DEF Renew, TypeOK
<1>3. \A a \in Artifacts : a \in S =>
            state'[a] = "approved" /\ version'[a] = version[a] + 1
    BY DEF Renew
<1>4. \A a \in Artifacts : a \notin S =>
            state'[a] = state[a] /\ version'[a] = version[a]
    BY DEF Renew
<1> QED BY <1>1, <1>2, <1>3, <1>4

\* The affected tickets depend on the story and on which tickets exist.
LEMMA AffectedStays ==
    ASSUME story' = story,
           \A t \in Tickets : state'[Ticket(t)] = "absent" <=> state[Ticket(t)] = "absent"
    PROVE  Affected' = Affected
BY DEF Affected, Exists

\* Versions and what a request touched, when the artifacts of S are written
\* again during it.
LEMMA WriteKeeps ==
    ASSUME IInv, NEW S,
           UNCHANGED <<before, blast>>, Affected' = Affected,
           version' \in [Artifacts -> Nat],
           \A a \in Artifacts : version'[a] >= version[a],
           \A a \in Artifacts : a \notin S =>
                state'[a] = state[a] /\ version'[a] = version[a],
           \A a \in Artifacts : a \in S =>
                a \in blast \cup {Code(t) : t \in Affected}
    PROVE  Grown' /\ OnlyBlastRadiusTouched'
<1>1. before.version \in [Artifacts -> Nat]
    BY DEF IInv, TypeOK
<1>2. Grown'
    BY <1>1 DEF IInv, TypeOK, ChangeInv, Grown
<1>3. OnlyBlastRadiusTouched'
    BY DEF IInv, ChangeInv, OnlyBlastRadiusTouched
<1> QED BY <1>2, <1>3

\* A step that writes nothing and leaves the request as it is.
LEMMA StandStill ==
    ASSUME IInv, UNCHANGED <<store, request, impact>>
    PROVE  /\ Affected' = Affected
           /\ Scope' /\ Grown' /\ OnlyBlastRadiusTouched'
           /\ Untouched' <=> Untouched
<1> USE DEF store, request, impact
<1>1. Affected' = Affected
    BY DEF Affected, Exists
<1>2. Scope'
    BY <1>1 DEF IInv, ChangeInv, Scope
<1>3. Grown' /\ OnlyBlastRadiusTouched'
    BY <1>1 DEF IInv, ChangeInv, Grown, OnlyBlastRadiusTouched
<1>4. Untouched' <=> Untouched
    BY DEF Untouched
<1> QED BY <1>1, <1>2, <1>3, <1>4

\* A call that ends without being accepted: it raised, or it escalated, or it
\* was refused where it has written nothing.
LEMMA EndKeeps ==
    ASSUME IInv, UNCHANGED <<store, request, impact>>, pending' \subseteq pending,
           pc' \in Quiet, decision' # "accepted",
           decision' \in {"rejected", "deferred"} => Untouched
    PROVE  ChangeInv'
<1>1. /\ Affected' = Affected
      /\ Scope' /\ Grown' /\ OnlyBlastRadiusTouched'
      /\ Untouched' <=> Untouched
    BY StandStill
<1>2. NothingYet'
    BY <1>1 DEF IInv, ChangeInv, NothingYet, Quiet, impact
<1>3. Progress'
    BY <1>1 DEF IInv, ChangeInv, Progress, Quiet, impact
<1>4. Rebuilt' /\ Reshipped'
    BY DEF Rebuilt, Reshipped
<1> QED BY <1>1, <1>2, <1>3, <1>4 DEF ChangeInv

\* A step between requests, and one that changes nothing the request is about.
LEMMA AsideKeeps ==
    ASSUME IInv, UNCHANGED <<store, request, impact, pending, decision, deployed>>,
           pc' = pc \/ (pc \in Quiet /\ pc' \in Quiet)
    PROVE  ChangeInv'
<1>1. /\ Affected' = Affected
      /\ Scope' /\ Grown' /\ OnlyBlastRadiusTouched'
      /\ Untouched' <=> Untouched
    BY StandStill
<1>2. NothingYet'
    BY <1>1 DEF IInv, ChangeInv, NothingYet, Quiet, impact
<1>3. Progress'
    BY <1>1 DEF IInv, ChangeInv, Progress, Quiet, impact
<1>4. Rebuilt'
    BY <1>1 DEF IInv, ChangeInv, Rebuilt, Done, store, request, impact
<1>5. Reshipped'
    BY DEF IInv, ChangeInv, Reshipped, Done, Quiet, store, request, impact
<1> QED BY <1>1, <1>2, <1>3, <1>4, <1>5 DEF ChangeInv

-----------------------------------------------------------------------------
(* One lemma per action                                                    *)

LEMMA ReceiveKeeps ==
    ASSUME IInv, NEW s \in Stories, NEW new \in BOOLEAN, NEW ops \in BOOLEAN,
           Receive(s, new, ops)
    PROVE  ChangeInv'
<1>1. /\ pc' = "triage" /\ blast' = {} /\ pending' = {} /\ ~ wasShipped'
      /\ decision' = "accepted"
      /\ UNCHANGED <<state, version>>
      /\ before' = [state |-> state, version |-> version]
    BY DEF Receive, store
<1>2. NothingYet' /\ Scope' /\ Progress' /\ Rebuilt' /\ Reshipped'
    BY <1>1 DEF NothingYet, Untouched, Scope, Progress, Rebuilt, Reshipped, Quiet
<1>3. before'.state = state /\ before'.version = version
    BY <1>1
<1>4. Grown' /\ OnlyBlastRadiusTouched'
    BY <1>1, <1>3 DEF IInv, TypeOK, Grown, OnlyBlastRadiusTouched
<1> QED BY <1>2, <1>4 DEF ChangeInv

LEMMA TriageKeeps ==
    ASSUME IInv, Triage
    PROVE  ChangeInv'
<1>1. pc = "triage" /\ UNCHANGED <<store, request, impact, pending>>
    BY DEF Triage
<1>2. Untouched
    BY <1>1 DEF IInv, ChangeInv, NothingYet
<1>3. CASE pc' = "impact" /\ UNCHANGED decision
    <2>1. /\ Affected' = Affected
          /\ Scope' /\ Grown' /\ OnlyBlastRadiusTouched'
          /\ Untouched' <=> Untouched
        BY <1>1, StandStill
    <2>2. NothingYet' /\ Reshipped'
        BY <2>1, <1>2, <1>3 DEF NothingYet, Reshipped, Quiet
    <2>3. Progress' /\ Rebuilt'
        BY <1>1, <1>3, <2>1
        DEF IInv, ChangeInv, Progress, Quiet, impact, Rebuilt
    <2> QED BY <2>1, <2>2, <2>3 DEF ChangeInv
<1>4. CASE \E d \in {"deferred", "rejected", "escalated"} : Return(d)
    <2>1. pc' \in Quiet /\ decision' # "accepted"
        BY <1>4 DEF Return, Quiet
    <2> QED BY <1>1, <1>2, <2>1, EndKeeps
<1> QED BY <1>3, <1>4 DEF Triage

LEMMA ImpactKeeps ==
    ASSUME IInv, Impact
    PROVE  ChangeInv'
<1>1. pc = "impact" /\ UNCHANGED <<store, request>>
    BY DEF Impact
<1>2. CASE /\ Affected = {} /\ Return("escalated")
           /\ UNCHANGED <<impact, pending>>
    <2>1. pc' \in Quiet /\ decision' = "escalated"
        BY <1>2 DEF Return, Quiet
    <2> QED BY <1>1, <1>2, <2>1, EndKeeps
<1>3. CASE /\ Affected # {}
           /\ wasShipped' = Exists(RELEASE)
           /\ blast' = {PRD} \cup {Ticket(t) : t \in Affected}
                             \cup {Code(t) : t \in {u \in Affected : Exists(Code(u))}}
                             \cup (IF Exists(RELEASE) THEN {DOCS, RELEASE} ELSE {})
           /\ pending' = Affected
           /\ pc' = IF Cardinality(Affected) > GateThreshold
                    THEN "budgetGate" ELSE "amend"
           /\ UNCHANGED decision
    <2>1. pc' \in {"budgetGate", "amend"} /\ blast' # {} /\ decision' = "accepted"
        BY <1>1, <1>3 DEF IInv, ChangeInv, Progress
    <2>2. Affected' = Affected
        BY <1>1 DEF store, request, Affected, Exists
    <2>3. Untouched' /\ NothingYet'
        BY <1>1 DEF IInv, ChangeInv, NothingYet, Untouched, store, request
    <2>4. Scope'
        <3>1. PRD \in blast'
            BY <1>3
        <3>2. Affected \subseteq Tickets
            BY DEF Affected
        <3>3. ASSUME NEW t \in Tickets
              PROVE  /\ Ticket(t) \in blast' <=> t \in Affected
                     /\ Code(t) \in blast' => t \in Affected
            BY <1>3, <3>2, Kinds
        <3>4. /\ DOCS \in blast' <=> wasShipped'
              /\ RELEASE \in blast' <=> wasShipped'
            BY <1>3, <3>2, Kinds
        <3> QED BY <2>2, <3>1, <3>3, <3>4 DEF Scope
    <2>5. Progress'
        BY <1>3, <2>1, <2>2 DEF Progress, Quiet
    <2>6. Grown' /\ OnlyBlastRadiusTouched'
        BY <1>1, <2>3 DEF Untouched, IInv, TypeOK, ChangeInv, Grown,
                         OnlyBlastRadiusTouched, store, request
    <2>7. Rebuilt' /\ Reshipped'
        BY <1>3, <2>1, <2>2 DEF Rebuilt, Reshipped, Quiet
    <2> QED BY <2>3, <2>4, <2>5, <2>6, <2>7 DEF ChangeInv
<1> QED BY <1>2, <1>3 DEF Impact

LEMMA BudgetGateKeeps ==
    ASSUME IInv, BudgetGate
    PROVE  ChangeInv'
<1>1. pc = "budgetGate" /\ UNCHANGED <<store, request, impact, pending>>
    BY DEF BudgetGate
<1>2. Untouched
    BY <1>1 DEF IInv, ChangeInv, NothingYet
<1>3. CASE pc' = "amend" /\ UNCHANGED decision
    <2>1. /\ Affected' = Affected
          /\ Scope' /\ Grown' /\ OnlyBlastRadiusTouched'
          /\ Untouched' <=> Untouched
        BY <1>1, StandStill
    <2>2. NothingYet' /\ Reshipped'
        BY <2>1, <1>2, <1>3 DEF NothingYet, Reshipped, Quiet
    <2>3. Progress' /\ Rebuilt'
        BY <1>1, <1>3, <2>1
        DEF IInv, ChangeInv, Progress, Quiet, impact, Rebuilt
    <2> QED BY <2>1, <2>2, <2>3 DEF ChangeInv
<1>4. CASE Return("rejected")
    <2>1. pc' \in Quiet /\ decision' # "accepted"
        BY <1>4 DEF Return, Quiet
    <2> QED BY <1>1, <1>2, <2>1, EndKeeps
<1> QED BY <1>3, <1>4 DEF BudgetGate

LEMMA AmendKeeps ==
    ASSUME IInv, AmendAndInvalidate
    PROVE  ChangeInv'
<1> DEFINE S == IF DOCS \in blast /\ ~ Exists(DOCS) THEN blast \ {DOCS, RELEASE} ELSE blast
<1>1. /\ pc = "amend" /\ blast # {} /\ PRD \in blast /\ pending = Affected
      /\ decision = "accepted"
    BY DEF AmendAndInvalidate, IInv, ChangeInv, Progress, Scope
<1>2. /\ version' = [a \in Artifacts |->
                        IF a \in Amended THEN version[a] + 1 ELSE version[a]]
      /\ state' = Stale(S, Amended)
      /\ UNCHANGED <<request, impact, pending>>
    BY DEF AmendAndInvalidate
<1>3. \/ pc' = "rerun" /\ UNCHANGED decision
      \/ pc' = "idle" /\ decision' = "raised"
    BY DEF AmendAndInvalidate, Abort
<1>4. S \subseteq blast /\ Amended \subseteq S
    BY <1>1, Kinds DEF Amended
<1> HIDE DEF S
<1>5. \A a \in Artifacts : a \notin S => state'[a] = state[a] /\ version'[a] = version[a]
    BY <1>2, <1>4 DEF Stale
<1>6. Affected' = Affected
    <2>1. \A t \in Tickets : state'[Ticket(t)] = "absent" <=> state[Ticket(t)] = "absent"
        BY <1>2, Kinds DEF Stale, Amended
    <2> QED BY <1>2, <2>1, AffectedStays DEF request
<1>7. Scope'
    BY <1>2, <1>6 DEF IInv, ChangeInv, Scope, impact
<1>8. Grown' /\ OnlyBlastRadiusTouched'
    <2>1. version' \in [Artifacts -> Nat] /\ \A a \in Artifacts : version'[a] >= version[a]
        BY <1>2 DEF IInv, TypeOK
    <2>2. UNCHANGED <<before, blast>>
        BY <1>2 DEF request, impact
    <2> QED BY <1>4, <1>5, <1>6, <2>1, <2>2, WriteKeeps
<1>9. NothingYet' /\ Reshipped'
    BY <1>1, <1>2, <1>3 DEF NothingYet, Reshipped, Quiet, impact
<1>10. Progress' /\ Rebuilt'
    BY <1>1, <1>2, <1>3, <1>6
    DEF IInv, ChangeInv, Progress, Quiet, Rebuilt, impact
<1> QED BY <1>7, <1>8, <1>9, <1>10 DEF ChangeInv

LEMMA RerunKeeps ==
    ASSUME IInv, NEW t \in Tickets, Rerun(t)
    PROVE  ChangeInv'
<1>1. /\ pc = "rerun" /\ t \in pending /\ t \in Affected
      /\ decision \in {"accepted", "escalated"} /\ blast # {}
      /\ UNCHANGED <<request, impact>>
    BY DEF Rerun, IInv, ChangeInv, Progress
<1>2. PICK made \in {{Ticket(t)}, {Ticket(t), Code(t)}} :
        /\ Renew(made)
        /\ \/ /\ made = {Ticket(t), Code(t)} /\ pending' = pending \ {t}
              /\ UNCHANGED <<pc, decision>>
           \/ /\ pending' = pending \ {t} /\ decision' = "escalated" /\ pc' = pc
           \/ /\ pc' = "idle" /\ decision' = "raised" /\ UNCHANGED pending
    BY DEF Rerun, Abort
<1>3. /\ state' \in [Artifacts -> Statuses]
      /\ version' \in [Artifacts -> Nat]
      /\ \A a \in Artifacts : a \in made =>
            state'[a] = "approved" /\ version'[a] = version[a] + 1
      /\ \A a \in Artifacts : a \notin made =>
            state'[a] = state[a] /\ version'[a] = version[a]
    BY <1>2, RenewEffect DEF IInv
<1>4. Affected' = Affected
    <2>1. state[Ticket(t)] # "absent"
        BY <1>1 DEF Affected, Exists
    <2>2. \A u \in Tickets : state'[Ticket(u)] = "absent" <=> state[Ticket(u)] = "absent"
        BY <1>2, <1>3, <2>1, Kinds
    <2> QED BY <1>1, <2>2, AffectedStays DEF request
<1>5. Scope'
    BY <1>1, <1>4 DEF IInv, ChangeInv, Scope, impact
<1>6. Grown' /\ OnlyBlastRadiusTouched'
    <2>1. \A a \in Artifacts : version'[a] >= version[a]
        BY <1>3 DEF IInv, TypeOK
    <2>2. UNCHANGED <<before, blast>>
        BY <1>1 DEF request, impact
    <2>3. \A a \in Artifacts : a \in made => a \in blast \cup {Code(u) : u \in Affected}
        BY <1>1, <1>2 DEF IInv, ChangeInv, Scope
    <2> QED BY <1>3, <1>4, <2>1, <2>2, <2>3, WriteKeeps
<1>7. NothingYet' /\ Reshipped'
    BY <1>1, <1>2 DEF NothingYet, Reshipped, Quiet, impact
<1>8. Progress'
    BY <1>1, <1>2, <1>4 DEF IInv, ChangeInv, Progress, Quiet, impact
<1>9. Rebuilt'
    <2> SUFFICES ASSUME decision' = "accepted", NEW u \in Tickets, u \in Affected \ pending'
                 PROVE  Done(Ticket(u))' /\ Done(Code(u))'
        BY <1>4 DEF Rebuilt, Affected
    <2>1. made = {Ticket(t), Code(t)} /\ pending' = pending \ {t} /\ decision = "accepted"
        BY <1>1, <1>2
    <2>2. CASE u = t
        <3>1. /\ state'[Ticket(t)] = "approved" /\ version'[Ticket(t)] = version[Ticket(t)] + 1
              /\ state'[Code(t)] = "approved" /\ version'[Code(t)] = version[Code(t)] + 1
            BY <1>3, <2>1, Kinds
        <3>2. /\ before.version[Ticket(t)] <= version[Ticket(t)]
              /\ before.version[Code(t)] <= version[Code(t)]
            BY Kinds DEF IInv, ChangeInv, Grown
        <3>3. /\ before.version \in [Artifacts -> Nat] /\ version \in [Artifacts -> Nat]
            BY DEF IInv, TypeOK
        <3>4. before' = before
            BY <1>1 DEF request
        <3> QED BY <2>2, <3>1, <3>2, <3>3, <3>4, Kinds DEF Done
    <2>3. CASE u # t
        <3>1. Done(Ticket(u)) /\ Done(Code(u))
            BY <1>1, <2>1, <2>3 DEF IInv, ChangeInv, Rebuilt
        <3>2. Ticket(u) \notin made /\ Code(u) \notin made
            BY <2>1, <2>3, Kinds
        <3> QED BY <1>1, <1>3, <3>1, <3>2, Kinds DEF Done, request
    <2> QED BY <2>2, <2>3
<1> QED BY <1>5, <1>6, <1>7, <1>8, <1>9 DEF ChangeInv

LEMMA AfterRerunsKeeps ==
    ASSUME IInv, AfterReruns
    PROVE  ChangeInv'
<1>1. /\ pc = "rerun" /\ pending = {}
      /\ UNCHANGED <<store, request, impact, pending, deployed>>
    BY DEF AfterReruns, production
<1>2. \/ /\ decision = "accepted" /\ wasShipped /\ EnableShip
         /\ pc' = "reship" /\ UNCHANGED decision
      \/ /\ ~ (decision = "accepted" /\ wasShipped /\ EnableShip)
         /\ pc' \in Quiet /\ UNCHANGED decision
    BY DEF AfterReruns, Return, Quiet
<1>3. /\ Affected' = Affected
      /\ Scope' /\ Grown' /\ OnlyBlastRadiusTouched'
      /\ Untouched' <=> Untouched
    BY <1>1, StandStill
<1>4. NothingYet' /\ Progress'
    BY <1>1, <1>2, <1>3
    DEF IInv, ChangeInv, NothingYet, Progress, Quiet, impact
<1>5. Rebuilt'
    BY <1>1, <1>2, <1>3
    DEF IInv, ChangeInv, Rebuilt, Done, store, request, impact
<1>6. Reshipped'
    BY <1>1, <1>2 DEF Reshipped, Quiet, impact
<1> QED BY <1>3, <1>4, <1>5, <1>6 DEF ChangeInv

\* The release and the docs of an accepted request that had a release: what
\* Reship and Redocument write is in the blast radius and no ticket's.
LEMMA ShipWriteKeeps ==
    ASSUME IInv, pc \in {"reship", "docs"}, NEW x \in {RELEASE, DOCS}, Renew({x}),
           UNCHANGED <<request, impact, pending>>,
           pc' \in Quiet \cup {"docs"}, pc' = "docs" => decision' = "accepted"
    PROVE  /\ state'[x] = "approved" /\ version'[x] = version[x] + 1 /\ Done(x)'
           /\ \A a \in Artifacts \ {x} :
                state'[a] = state[a] /\ version'[a] = version[a]
           /\ Scope' /\ Grown' /\ OnlyBlastRadiusTouched' /\ Rebuilt'
           /\ Progress' /\ (decision' \notin {"rejected", "deferred"} => NothingYet')
<1>1. /\ blast # {} /\ wasShipped /\ RELEASE \in blast /\ DOCS \in blast /\ pending = {}
      /\ EnableShip /\ decision = "accepted"
    BY DEF IInv, ChangeInv, Progress, Scope
<1>2. /\ state' \in [Artifacts -> Statuses]
      /\ version' \in [Artifacts -> Nat]
      /\ \A a \in Artifacts : a \in {x} =>
            state'[a] = "approved" /\ version'[a] = version[a] + 1
      /\ \A a \in Artifacts : a \notin {x} =>
            state'[a] = state[a] /\ version'[a] = version[a]
    BY RenewEffect DEF IInv
<1>3. x \in Artifacts /\ \A t \in Tickets : Ticket(t) # x /\ Code(t) # x
    BY Kinds
<1>4. Affected' = Affected
    <2>1. \A t \in Tickets : state'[Ticket(t)] = "absent" <=> state[Ticket(t)] = "absent"
        BY <1>2, <1>3, Kinds
    <2> QED BY <2>1, AffectedStays DEF request
<1>5. Scope'
    BY <1>4 DEF IInv, ChangeInv, Scope, impact
<1>6. Grown' /\ OnlyBlastRadiusTouched'
    <2>1. \A a \in Artifacts : version'[a] >= version[a]
        BY <1>2 DEF IInv, TypeOK
    <2>2. UNCHANGED <<before, blast>>
        BY DEF request, impact
    <2> QED BY <1>1, <1>2, <1>4, <2>1, <2>2, WriteKeeps
<1>7. Rebuilt'
    <2>1. \A t \in Affected : Done(Ticket(t)) /\ Done(Code(t))
        BY <1>1 DEF IInv, ChangeInv, Rebuilt
    <2>2. Affected \subseteq Tickets
        BY DEF Affected
    <2> QED BY <1>2, <1>3, <1>4, <2>1, <2>2, Kinds DEF Rebuilt, Done, request
<1>8. Progress' /\ (decision' \notin {"rejected", "deferred"} => NothingYet')
    BY <1>1, <1>4 DEF IInv, ChangeInv, Progress, NothingYet, Quiet, impact
<1>9. Done(x)'
    <2>1. before.version[x] <= version[x] /\ before.version[x] \in Nat /\ version[x] \in Nat
        BY <1>3 DEF IInv, TypeOK, ChangeInv, Grown
    <2> QED BY <1>2, <1>3, <2>1 DEF Done, request
<1> QED BY <1>2, <1>3, <1>5, <1>6, <1>7, <1>8, <1>9

LEMMA ReshipKeeps ==
    ASSUME IInv, Reship
    PROVE  ChangeInv'
<1>1. pc = "reship" /\ UNCHANGED <<request, impact, pending>>
    BY DEF Reship
<1>2. CASE /\ Renew({RELEASE}) /\ deployed' = version[RELEASE] + 1
           /\ pc' = "docs" /\ UNCHANGED decision
    <2>1. decision = "accepted"
        BY <1>1 DEF IInv, ChangeInv, Progress
    <2>2. /\ version'[RELEASE] = version[RELEASE] + 1 /\ Done(RELEASE)'
          /\ Scope' /\ Grown' /\ OnlyBlastRadiusTouched' /\ Rebuilt'
          /\ Progress' /\ NothingYet'
        BY <1>1, <1>2, <2>1, ShipWriteKeeps
    <2> QED BY <1>2, <2>2 DEF ChangeInv, Reshipped
<1>3. CASE Renew({RELEASE}) /\ Abort
    <2>1. pc' \in Quiet /\ decision' = "raised" /\ pc' # "docs"
        BY <1>3 DEF Abort, Quiet
    <2>2. /\ Scope' /\ Grown' /\ OnlyBlastRadiusTouched' /\ Rebuilt'
          /\ Progress' /\ NothingYet'
        BY <1>1, <1>3, <2>1, ShipWriteKeeps
    <2> QED BY <2>1, <2>2 DEF ChangeInv, Reshipped
<1>4. CASE Return("escalated") /\ UNCHANGED store
    <2>1. pc' \in Quiet /\ decision' = "escalated"
        BY <1>4 DEF Return, Quiet
    <2> QED BY <1>1, <1>4, <2>1, EndKeeps
<1> QED BY <1>2, <1>3, <1>4 DEF Reship

LEMMA RedocumentKeeps ==
    ASSUME IInv, Redocument
    PROVE  ChangeInv'
<1>1. pc = "docs" /\ UNCHANGED <<request, impact, pending, deployed>>
    BY DEF Redocument, production
<1>2. CASE Renew({DOCS}) /\ Return(decision)
    <2>1. pc' \in Quiet /\ decision' = decision /\ decision = "accepted" /\ pc' # "docs"
        BY <1>1, <1>2 DEF Return, Quiet, IInv, ChangeInv, Progress
    <2>2. /\ Done(DOCS)'
          /\ \A a \in Artifacts \ {DOCS} :
                state'[a] = state[a] /\ version'[a] = version[a]
          /\ Scope' /\ Grown' /\ OnlyBlastRadiusTouched' /\ Rebuilt'
          /\ Progress' /\ NothingYet'
        BY <1>1, <1>2, <2>1, ShipWriteKeeps
    <2>3. Reshipped'
        <3>1. wasShipped /\ EnableShip
            BY <1>1 DEF IInv, ChangeInv, Progress
        <3>2. Done(RELEASE) /\ deployed = version[RELEASE]
            BY <1>1, <2>1, <3>1 DEF IInv, ChangeInv, Reshipped
        <3>3. state'[RELEASE] = state[RELEASE] /\ version'[RELEASE] = version[RELEASE]
            BY <2>2, Kinds
        <3> QED BY <1>1, <2>2, <3>2, <3>3 DEF Reshipped, Done, request
    <2> QED BY <2>2, <2>3 DEF ChangeInv
<1>3. CASE Return("escalated") /\ UNCHANGED store
    <2>1. pc' \in Quiet /\ decision' = "escalated"
        BY <1>3 DEF Return, Quiet
    <2> QED BY <1>1, <1>3, <2>1, EndKeeps
<1> QED BY <1>2, <1>3 DEF Redocument

-----------------------------------------------------------------------------
(* Types                                                                   *)

\* The values of pc.
Points == {"idle", "triage", "impact", "budgetGate", "amend", "rerun", "reship",
           "docs", "opsTriage", "rollbackGate", "fix", "verdict"}

LEMMA ReceiveType ==
    ASSUME TypeOK, NEW s \in Stories, NEW new \in BOOLEAN, NEW ops \in BOOLEAN,
           Receive(s, new, ops), asked' \in Nat, reverted' \in BOOLEAN,
           UNCHANGED verdict \/ verdict' = "no_action", calls' \in 0..MaxCalls
    PROVE  TypeOK'
<1>1. before' \in [state : [Artifacts -> Statuses], version : [Artifacts -> Nat]]
    BY DEF Receive, TypeOK
<1>2. /\ pc' = "triage" /\ story' = s /\ amends' = new /\ byOps' = ops
      /\ blast' = {} /\ pending' = {} /\ wasShipped' = FALSE
      /\ decision' = "accepted" /\ interventions' = 0
    BY DEF Receive
<1>3. UNCHANGED <<store, production>>
    BY DEF Receive
<1> QED BY <1>1, <1>2, <1>3 DEF TypeOK, store, production

\* A step that leaves the store and the request alone.
LEMMA ControlType ==
    ASSUME TypeOK, UNCHANGED <<store, request, impact>>, pending' \subseteq pending,
           UNCHANGED <<deployed, signed, shippedOnce>>,
           pc' \in Points, rolledBack' \in BOOLEAN, handle' \in BOOLEAN,
           decision' \in {"accepted", "deferred", "rejected", "escalated", "raised"},
           interventions' \in Nat, asked' \in Nat, reverted' \in BOOLEAN,
           verdict' \in {"no_action", "ticketed", "rolled_back",
                         "rolled_back+ticketed", "escalated", "raised"},
           calls' \in 0..MaxCalls
    PROVE  TypeOK'
BY DEF TypeOK, store, request, impact, Points

\* A step of a request that writes to the store.
LEMMA WriteType ==
    ASSUME TypeOK, state' \in [Artifacts -> Statuses], version' \in [Artifacts -> Nat],
           UNCHANGED <<request, impact, signed, shippedOnce, asked, reverted, calls>>,
           pending' \subseteq pending, pc' \in Points, deployed' \in Nat,
           rolledBack' \in BOOLEAN, handle' \in BOOLEAN,
           decision' \in {"accepted", "deferred", "rejected", "escalated", "raised"},
           interventions' \in Nat, verdict' = verdict \/ verdict' = "raised"
    PROVE  TypeOK'
BY DEF TypeOK, request, impact, Points

LEMMA TypeKeeps == TypeOK /\ [Next]_vars => TypeOK'
<1> SUFFICES ASSUME TypeOK, [Next]_vars PROVE TypeOK'
    OBVIOUS
<1>1. ASSUME NEW s \in Stories, NEW new \in BOOLEAN, ChangeRequested(s, new)
      PROVE  TypeOK'
    <2>1. calls' \in 0..MaxCalls
        BY <1>1, ChangeAssumption DEF ChangeRequested, TypeOK
    <2>2. Receive(s, new, FALSE) /\ asked' = 0 /\ reverted' = FALSE /\ verdict' = "no_action"
        BY <1>1 DEF ChangeRequested
    <2> QED BY <2>1, <2>2, ReceiveType
<1>2. CASE IncidentReported
    <2>1. calls' \in 0..MaxCalls
        BY <1>2, ChangeAssumption DEF IncidentReported, TypeOK
    <2> QED BY <1>2, <2>1, ControlType DEF IncidentReported, TypeOK, production, Points
<1>3. CASE Triage
    BY <1>3, ControlType DEF Triage, Return, TypeOK, production, incident, Points
<1>4. CASE Impact
    <2>1. CASE /\ Affected = {} /\ Return("escalated")
               /\ UNCHANGED <<impact, pending>>
        BY <1>4, <2>1, ControlType DEF Impact, Return, TypeOK, production, incident, Points
    <2>2. CASE ~ (Affected = {} /\ Return("escalated") /\ UNCHANGED <<impact, pending>>)
        <3>1. /\ wasShipped' = Exists(RELEASE)
              /\ blast' = {PRD} \cup {Ticket(t) : t \in Affected}
                                \cup {Code(t) : t \in {u \in Affected : Exists(Code(u))}}
                                \cup (IF Exists(RELEASE) THEN {DOCS, RELEASE} ELSE {})
              /\ pending' = Affected
              /\ pc' \in Points
              /\ UNCHANGED decision
            BY <1>4, <2>2 DEF Impact, Points
        <3>2. Affected \subseteq Tickets
            BY DEF Affected
        <3>3. blast' \subseteq Artifacts
            BY <3>1, <3>2, Kinds
        <3>4. wasShipped' \in BOOLEAN
            BY <3>1 DEF Exists
        <3>5. UNCHANGED <<store, request, production, interventions, asked, incident, calls>>
            BY <1>4 DEF Impact
        <3> QED BY <3>1, <3>2, <3>3, <3>4, <3>5
                DEF TypeOK, Points, store, request, production, incident
    <2> QED BY <2>1, <2>2
<1>5. CASE BudgetGate
    BY <1>5, ControlType DEF BudgetGate, Return, TypeOK, production, incident, Points
<1>6. CASE AmendAndInvalidate
    <2>1. version' \in [Artifacts -> Nat]
        BY <1>6 DEF AmendAndInvalidate, TypeOK
    <2>2. \A S, A : Stale(S, A) \in [Artifacts -> Statuses]
        BY DEF Stale, TypeOK, Statuses
    <2>3. state' \in [Artifacts -> Statuses]
        BY <1>6, <2>2 DEF AmendAndInvalidate
    <2>4. /\ UNCHANGED <<request, impact, pending, production, interventions,
                         asked, reverted, calls>>
          /\ \/ pc' = "idle" /\ decision' = "raised" /\ verdict' = "raised"
             \/ pc' = "rerun" /\ UNCHANGED <<decision, verdict>>
        BY <1>6 DEF AmendAndInvalidate, Abort
    <2> QED BY <2>1, <2>3, <2>4, WriteType DEF TypeOK, production, Points
<1>7. ASSUME NEW t \in Tickets, Rerun(t) PROVE TypeOK'
    <2>1. PICK S \in {{Ticket(t)}, {Ticket(t), Code(t)}} : Renew(S)
        BY <1>7 DEF Rerun
    <2>2. state' \in [Artifacts -> Statuses] /\ version' \in [Artifacts -> Nat]
        BY <2>1, RenewEffect
    <2>3. /\ pending' \subseteq pending
          /\ \/ UNCHANGED <<pc, decision, verdict, interventions>>
             \/ /\ decision' = "escalated" /\ interventions' = interventions + 1
                /\ UNCHANGED <<pc, verdict>>
             \/ /\ pc' = "idle" /\ decision' = "raised" /\ verdict' = "raised"
                /\ UNCHANGED interventions
          /\ UNCHANGED <<request, impact, production, asked, reverted, calls>>
        BY <1>7 DEF Rerun, Abort
    <2> QED BY <2>2, <2>3, WriteType DEF TypeOK, production, Points
<1>8. CASE AfterReruns
    BY <1>8, ControlType DEF AfterReruns, Return, TypeOK, production, incident, Points
<1>9. CASE Reship
    <2>1. CASE Renew({RELEASE})
        <3>1. state' \in [Artifacts -> Statuses] /\ version' \in [Artifacts -> Nat]
            BY <2>1, RenewEffect
        <3>2. version[RELEASE] + 1 \in Nat
            BY Kinds DEF TypeOK
        <3> QED BY <1>9, <3>1, <3>2, WriteType DEF Reship, Return, Abort, TypeOK, Points
    <2>2. CASE ~ Renew({RELEASE})
        BY <1>9, <2>2, ControlType DEF Reship, Return, TypeOK, Points
    <2> QED BY <2>1, <2>2
<1>10. CASE Redocument
    <2>1. CASE Renew({DOCS})
        <3>1. state' \in [Artifacts -> Statuses] /\ version' \in [Artifacts -> Nat]
            BY <2>1, RenewEffect
        <3> QED BY <1>10, <3>1, WriteType
                DEF Redocument, Return, TypeOK, production, incident, Points
    <2>2. CASE ~ Renew({DOCS})
        BY <1>10, <2>2, ControlType
        DEF Redocument, Return, TypeOK, production, incident, Points
    <2> QED BY <2>1, <2>2
<1>11. CASE OpsTriage
    BY <1>11, ControlType DEF OpsTriage, TypeOK, production, Points
<1>12. CASE RollbackGate
    <2>1. rolledBack' \in BOOLEAN /\ reverted' \in BOOLEAN
        BY <1>12 DEF RollbackGate, TypeOK
    <2>2. /\ pc' = "fix" /\ interventions' = interventions + 1 /\ asked' = asked + 1
          /\ UNCHANGED <<store, request, impact, pending, decision, deployed,
                         handle, signed, shippedOnce, verdict, calls>>
        BY <1>12 DEF RollbackGate
    <2> QED BY <2>1, <2>2, ControlType DEF TypeOK, Points
<1>13. CASE NoFix \/ Verdict
    BY <1>13, ControlType DEF NoFix, Verdict, TypeOK, production, Points
<1>14. ASSUME NEW s \in Stories, Fix(s) PROVE TypeOK'
    BY <1>14, ReceiveType DEF Fix, incident, TypeOK
<1>15. CASE Raises
    BY <1>15, ControlType DEF Raises, Abort, TypeOK, production, Points
<1>16. CASE Restart
    BY <1>16, ControlType DEF Restart, TypeOK, Points
<1>17. CASE UNCHANGED vars
    BY <1>17 DEF vars, TypeOK, store, request, impact, production, incident
<1> QED BY <1>1, <1>2, <1>3, <1>4, <1>5, <1>6, <1>7, <1>8, <1>9, <1>10, <1>11,
           <1>12, <1>13, <1>14, <1>15, <1>16, <1>17 DEF Next, Step

-----------------------------------------------------------------------------
(* The theorems                                                            *)

LEMMA InitIInv == Init => IInv
<1> SUFFICES ASSUME Init PROVE IInv
    OBVIOUS
<1>1. PICK run \in {"shipped", "refused", "undocumented", "unshipped"} :
        /\ state = [a \in Artifacts |->
             CASE a = RELEASE /\ run = "refused" -> "draft"
               [] a = RELEASE /\ run = "unshipped" -> "absent"
               [] a = DOCS /\ run # "shipped" -> "absent"
               [] a = Code(1) /\ run = "unshipped" -> "absent"
               [] OTHER -> "approved"]
        /\ version = [a \in Artifacts |-> IF state[a] = "absent" THEN 0 ELSE 1]
        /\ deployed = IF run \in {"shipped", "undocumented"} THEN 1 ELSE 0
        /\ handle = (run \in {"shipped", "undocumented"})
        /\ shippedOnce = (run = "shipped")
    BY DEF Init
<1>2. /\ signed = deployed /\ rolledBack = FALSE /\ pc = "idle"
      /\ story \in Stories /\ amends = FALSE /\ byOps = FALSE
      /\ blast = {} /\ pending = {} /\ wasShipped = FALSE
      /\ decision = "accepted"
      /\ before = [state |-> state, version |-> version]
      /\ interventions = 0 /\ asked = 0
      /\ reverted = FALSE /\ verdict = "no_action"
      /\ calls = 0
    BY DEF Init
<1>3. state \in [Artifacts -> Statuses]
    <2>1. \A a \in Artifacts : state[a] \in Statuses
        BY <1>1 DEF Statuses
    <2> QED BY <1>1, <2>1
<1>4. version \in [Artifacts -> Nat]
    BY <1>1
<1>5. deployed \in Nat /\ handle \in BOOLEAN /\ shippedOnce \in BOOLEAN
    BY <1>1
<1>6. TypeOK
    <2>1. calls \in 0..MaxCalls
        BY <1>2, ChangeAssumption
    <2> QED BY <1>2, <1>3, <1>4, <1>5, <2>1 DEF TypeOK
<1>7. NothingYet /\ Scope /\ Progress /\ Rebuilt /\ Reshipped
    BY <1>2 DEF NothingYet, Untouched, Scope, Progress, Rebuilt, Reshipped, Quiet
<1>8. Grown /\ OnlyBlastRadiusTouched
    <2>1. before.state = state /\ before.version = version
        BY <1>2
    <2> QED BY <1>4, <2>1 DEF Grown, OnlyBlastRadiusTouched
<1> QED BY <1>6, <1>7, <1>8 DEF IInv, ChangeInv

LEMMA StepKeepsIInv == IInv /\ [Next]_vars => IInv'
<1> SUFFICES ASSUME IInv, [Next]_vars PROVE ChangeInv'
    BY TypeKeeps DEF IInv
<1>1. ASSUME NEW s \in Stories, NEW new \in BOOLEAN, ChangeRequested(s, new)
      PROVE  ChangeInv'
    BY <1>1, ReceiveKeeps DEF ChangeRequested
<1>2. ASSUME NEW s \in Stories, Fix(s) PROVE ChangeInv'
    BY <1>2, ReceiveKeeps DEF Fix
<1>3. CASE IncidentReported \/ OpsTriage \/ RollbackGate \/ NoFix \/ Verdict
    BY <1>3, AsideKeeps
    DEF IncidentReported, OpsTriage, RollbackGate, NoFix, Verdict, Quiet, production
<1>4. CASE Raises
    BY <1>4, EndKeeps DEF Raises, Abort, Quiet
<1>5. CASE Restart
    BY <1>5, EndKeeps, AsideKeeps DEF Restart, Quiet
<1>6. CASE UNCHANGED vars
    BY <1>6, AsideKeeps DEF vars, production
<1> QED BY <1>1, <1>2, <1>3, <1>4, <1>5, <1>6, TriageKeeps, ImpactKeeps,
           BudgetGateKeeps, AmendKeeps, RerunKeeps, AfterRerunsKeeps, ReshipKeeps,
           RedocumentKeeps DEF Next, Step

\* The invariant of apply_change_request and handle_incident, for every plan
\* and any sequence of calls, failures and restarts.
THEOREM ChangeInvariant == Spec => []IInv
BY InitIInv, StepKeepsIInv, PTL DEF Spec

\* Every variable keeps its type.
THEOREM ChangeTypeOK == Spec => []TypeOK
<1>1. IInv => TypeOK
    BY DEF IInv
<1> QED BY <1>1, ChangeInvariant, PTL

\* Whatever fails on the way, a change request touches only its blast radius
\* and the code of the affected tickets.
THEOREM ChangeTouchesOnlyItsBlastRadius == Spec => []OnlyBlastRadiusTouched
<1>1. IInv => OnlyBlastRadiusTouched
    BY DEF IInv, ChangeInv
<1> QED BY <1>1, ChangeInvariant, PTL

\* A rejected or deferred request has changed nothing.
THEOREM ChangeRefusedChangesNothing == Spec => []RefusedChangesNothing
<1>1. IInv => RefusedChangesNothing
    BY DEF IInv, ChangeInv, NothingYet, Untouched, RefusedChangesNothing
<1> QED BY <1>1, ChangeInvariant, PTL

\* An accepted request has made everything in its blast radius again, whatever
\* earlier calls that failed half-way had left behind.
THEOREM ChangeAcceptedIsRenewed == Spec => []AcceptedIsRenewed
<1>1. IInv => AcceptedIsRenewed
    <2> SUFFICES ASSUME IInv, decision = "accepted", pc \in {"idle", "verdict"}, blast # {}
                 PROVE  /\ \A a \in blast \ {PRD} :
                            (a \in {RELEASE, DOCS} => EnableShip) =>
                                state[a] = "approved" /\ version[a] > before.version[a]
                        /\ \A t \in Affected : state[Code(t)] = "approved"
        BY DEF AcceptedIsRenewed
    <2>1. \A t \in Affected : Done(Ticket(t)) /\ Done(Code(t))
        BY DEF IInv, ChangeInv, Progress, Rebuilt, Quiet
    <2>2. wasShipped /\ EnableShip => Done(RELEASE) /\ Done(DOCS)
        BY DEF IInv, ChangeInv, Reshipped, Quiet
    <2>3. ASSUME NEW a \in blast \ {PRD}, a \in {RELEASE, DOCS} => EnableShip
          PROVE  Done(a)
        <3>1. CASE a \in {RELEASE, DOCS}
            BY <2>2, <2>3, <3>1 DEF IInv, ChangeInv, Scope
        <3>2. CASE a \notin {RELEASE, DOCS}
            <4>1. a \in Artifacts
                BY DEF IInv, TypeOK
            <4>2. PICK t \in Tickets : a = Ticket(t) \/ a = Code(t)
                BY <2>3, <3>2, <4>1, KindOf
            <4>3. t \in Affected
                BY <4>2 DEF IInv, ChangeInv, Scope
            <4> QED BY <2>1, <4>2, <4>3
        <3> QED BY <3>1, <3>2
    <2> QED BY <2>1, <2>3 DEF Done
<1> QED BY <1>1, ChangeInvariant, PTL

\* After an accepted change production runs the newest release.
THEOREM ChangeAcceptedIsDeployed == Spec => []AcceptedIsDeployed
<1>1. IInv => AcceptedIsDeployed
    BY DEF IInv, ChangeInv, Reshipped, AcceptedIsDeployed, Quiet
<1> QED BY <1>1, ChangeInvariant, PTL
=============================================================================
