--------------------------- MODULE HandoffsProofs ---------------------------
(***************************************************************************)
(* Proofs about Handoffs, for every output an agent may give, any tickets  *)
(* of an earlier run, any flaws and scanners, and any number of change     *)
(* requests.                                                               *)
(*                                                                         *)
(* The inductive invariant follows what is handed on: each accepted        *)
(* document agrees with the one it was checked against, although a gate    *)
(* may send the run back and a change request amends the PRD (Chain); the  *)
(* tickets agree with the plan and the architecture (TicketsFit); the      *)
(* ticket being built, and what the QA agent is shown of it, has the       *)
(* criteria of now (Current), and what the review sees of the worktree was *)
(* scanned in this attempt (Scanned).                                      *)
(***************************************************************************)
EXTENDS Handoffs, FiniteSetTheorems, TLAPS

Kinds == {"prd", "backlog", "wbs", "plan", "arch", "ux", "ui"}

\* The stages at which a document is not written yet, or not again.
BeforePrd == {"prd", "over"}
BeforeBacklog == BeforePrd \cup {"backlog"}
BeforeWbs == BeforeBacklog \cup {"wbs"}
BeforePlan == BeforeWbs \cup {"plan"}
BeforeArch == BeforePlan \cup {"gate1", "arch"}

StoryRecords == [id : STRING, acs : SUBSET Criteria]

PrdSound == docs.prd \in Seq(StoryRecords) /\ Unique(docs.prd, "id")
BacklogSound == MvpIds \subseteq StoryIds /\ docs.backlog.cut \cap MvpIds = {}
WbsSound == /\ Unique(docs.wbs.items, "id")
            /\ Listed(docs.wbs.items, "story") = MvpIds
PlanSound == /\ docs.plan \in Seq(STRING)
             /\ ToSet(docs.plan) = Listed(docs.wbs.items, "id")
ArchSound == /\ Referenced(docs.arch, "stories") = MvpIds
             /\ Unique(docs.arch, "name")

\* Each document agrees with those before it.
Chain ==
    /\ DOMAIN docs = Kinds
    /\ stage \notin BeforePrd => PrdSound
    /\ stage \notin BeforeBacklog => BacklogSound
    /\ stage \notin BeforeWbs => WbsSound
    /\ stage \notin BeforePlan => PlanSound
    /\ stage \notin BeforeArch => ArchSound

\* The components a ticket of a story is given.
Serving(story) ==
    {c.name : c \in {d \in ToSet(docs.arch) : story \in d.stories}}

\* Every planned item has its ticket, for the story of the item.
TicketsFit ==
    Ticketed =>
        \A t \in DOMAIN docs.plan :
            /\ t \in DOMAIN tickets
            /\ tickets[t].item = docs.plan[t]
            /\ tickets[t].story = Item(docs.plan[t]).story
            /\ tickets[t].components = Serving(tickets[t].story)

\* A ticket has the criteria its story has now.
UpToDate(t) ==
    /\ tickets[t].story \in StoryIds
    /\ tickets[t].acs = Story(docs.prd, tickets[t].story).acs

\* The tickets of a first build are up to date, in a change request the one
\* being built is.
Current ==
    /\ stage = "build" /\ ~ changing =>
        /\ queue \in Seq(DOMAIN docs.plan)
        /\ \A t \in DOMAIN docs.plan : UpToDate(t)
    /\ work.step # None =>
        /\ stage = "build" /\ queue # <<>>
        /\ t0 \in DOMAIN tickets => UpToDate(t0)

\* A ticket that passed was tested for the criteria of now.
Tested ==
    \A t \in Passed :
        /\ Ticketed
        /\ tickets[t].story \in StoryIds
        /\ Story(docs.prd, tickets[t].story).acs \subseteq builds[t].tested

\* From the review on, the worktree has no blocking flaw the built-in scanner
\* knows that was not dismissed.
Scanned ==
    work.step \in {"review", "qa"} =>
        (work.tree \ work.dismissed) \cap Blocking \cap BuiltIn = {}

IInv ==
    /\ DOMAIN builds = DOMAIN tickets
    /\ Chain /\ TicketsFit /\ Current /\ Tested
    /\ Scanned /\ DismissedInWriting

-----------------------------------------------------------------------------
(* Lookups in documents                                                    *)

LEMMA ListedValues ==
    ASSUME NEW list, NEW field
    PROVE  /\ \A i \in DOMAIN list : list[i][field] \in Listed(list, field)
           /\ \A v \in Listed(list, field) : \E i \in DOMAIN list : list[i][field] = v
BY DEF Listed, Column, ToSet

LEMMA UniqueValues ==
    ASSUME NEW list, NEW field, Unique(list, field),
           NEW i \in DOMAIN list, NEW j \in DOMAIN list,
           list[i][field] = list[j][field]
    PROVE  i = j
BY DEF Unique, Column, IsInjective

\* A story is found under its id, and only that one.
LEMMA StoryFound ==
    ASSUME NEW prd, NEW x \in Listed(prd, "id")
    PROVE  Story(prd, x) \in ToSet(prd) /\ Story(prd, x).id = x
BY DEF Story, Listed, Column, ToSet

LEMMA StoryIs ==
    ASSUME NEW prd, Unique(prd, "id"), NEW i \in DOMAIN prd
    PROVE  Story(prd, prd[i].id) = prd[i]
<1>1. Story(prd, prd[i].id) \in ToSet(prd) /\ Story(prd, prd[i].id).id = prd[i].id
    BY StoryFound, ListedValues
<1>2. PICK j \in DOMAIN prd : Story(prd, prd[i].id) = prd[j]
    BY <1>1 DEF ToSet
<1> QED BY <1>1, <1>2, UniqueValues

LEMMA ItemFound ==
    ASSUME NEW x \in Listed(docs.wbs.items, "id")
    PROVE  Item(x) \in ToSet(docs.wbs.items) /\ Item(x).id = x
BY DEF Item, Listed, Column, ToSet

LEMMA ItemIs ==
    ASSUME Unique(docs.wbs.items, "id"), NEW i \in DOMAIN docs.wbs.items
    PROVE  Item(docs.wbs.items[i].id) = docs.wbs.items[i]
<1> DEFINE w == Item(docs.wbs.items[i].id)
<1>1. w \in ToSet(docs.wbs.items) /\ w.id = docs.wbs.items[i].id
    BY ItemFound, ListedValues
<1>2. PICK j \in DOMAIN docs.wbs.items : w = docs.wbs.items[j]
    BY <1>1 DEF ToSet
<1> QED BY <1>1, <1>2, UniqueValues

\* The story of a planned item is one of the MVP and of the PRD.
LEMMA PlannedStory ==
    ASSUME Chain, stage \notin BeforePlan, NEW t \in DOMAIN docs.plan
    PROVE  /\ Item(docs.plan[t]).story \in MvpIds
           /\ Item(docs.plan[t]).story \in StoryIds
<1>1. BacklogSound /\ WbsSound /\ PlanSound
    BY DEF Chain, BeforePrd, BeforeBacklog, BeforeWbs, BeforePlan
<1>2. docs.plan[t] \in Listed(docs.wbs.items, "id")
    BY <1>1 DEF PlanSound, ToSet
<1>3. Item(docs.plan[t]) \in ToSet(docs.wbs.items)
    BY <1>2, ItemFound
<1>4. Item(docs.plan[t]).story \in Listed(docs.wbs.items, "story")
    BY <1>3, ListedValues DEF ToSet
<1> QED BY <1>1, <1>4 DEF WbsSound, BacklogSound

\* A ticket derived from a story carries the story's id and criteria.
LEMMA TicketOf ==
    ASSUME NEW item, NEW x \in StoryIds, NEW design
    PROVE  LET ticket == TicketDict(item, Story(docs.prd, x), design)
           IN  /\ ticket.item = item /\ ticket.story = x
               /\ ticket.acs = Story(docs.prd, x).acs
               /\ ticket.components = Serving(x)
<1>1. Story(docs.prd, x).id = x
    BY StoryFound DEF StoryIds
<1> QED BY <1>1 DEF TicketDict, Serving

-----------------------------------------------------------------------------
(* The planning stages                                                     *)

\* What a planning stage leaves alone.
LEMMA PlanningKeeps ==
    ASSUME IInv, ~ Ticketed, stage' \notin {"build", "rest"}, UNCHANGED ticketing, Chain'
    PROVE  IInv'
<1> USE DEF ticketing
<1>1. Passed = {} /\ Passed' = {} /\ work.step = None
    BY DEF IInv, Tested, Current, Passed, Ticketed
<1>2. TicketsFit' /\ Current' /\ Tested'
    BY <1>1 DEF TicketsFit, Current, Tested, Ticketed
<1>3. Scanned' /\ DismissedInWriting'
    BY <1>1 DEF IInv, Scanned, DismissedInWriting, Passed
<1> QED BY <1>2, <1>3 DEF IInv

\* A document is written: the others stay.
LEMMA WrittenDocs ==
    ASSUME Chain, NEW kind \in Kinds, NEW output, NEW next, Written(kind, output, next)
    PROVE  /\ DOMAIN docs' = Kinds /\ docs'[kind] = output
           /\ \A k \in Kinds : k # kind => docs'[k] = docs[k]
           /\ stage' = next /\ UNCHANGED ticketing
BY DEF Written, Chain

LEMMA PlanningChain ==
    ASSUME Chain, Planning, ~ DeriveTickets
    PROVE  Chain'
<1> USE DEF BeforePrd, BeforeBacklog, BeforeWbs, BeforePlan, BeforeArch
<1>1. CASE StagePrd
    <2>1. PICK out \in Prds : PrdAccepted(out) /\ Written("prd", out, "backlog")
        BY <1>1 DEF StagePrd
    <2>2. DOMAIN docs' = Kinds /\ docs'.prd = out /\ stage' = "backlog"
        BY <2>1, WrittenDocs DEF Kinds
    <2>3. PrdSound'
        BY <2>1, <2>2, HandoffsAssumption DEF PrdSound, PrdAccepted, StoryRecords
    <2> QED BY <2>2, <2>3 DEF Chain
<1>2. CASE ProduceBacklog
    <2>1. PICK out \in Backlogs :
            BacklogAccepted(out, StoryIds) /\ Written("backlog", out, "wbs")
        BY <1>2 DEF ProduceBacklog
    <2>2. /\ DOMAIN docs' = Kinds /\ docs'.backlog = out /\ docs'.prd = docs.prd
          /\ stage' = "wbs" /\ stage = "backlog"
        BY <1>2, <2>1, WrittenDocs DEF Kinds, ProduceBacklog
    <2>3. PrdSound'
        BY <2>2 DEF Chain, PrdSound
    <2>4. BacklogSound'
        BY <2>1, <2>2 DEF BacklogSound, BacklogAccepted, MvpIds, StoryIds
    <2> QED BY <2>2, <2>3, <2>4 DEF Chain
<1>3. CASE ProduceWbs
    <2>1. PICK out \in Wbss : WbsAccepted(out, MvpIds) /\ Written("wbs", out, "plan")
        BY <1>3 DEF ProduceWbs
    <2>2. /\ DOMAIN docs' = Kinds /\ docs'.wbs = out /\ docs'.prd = docs.prd
          /\ docs'.backlog = docs.backlog /\ stage' = "plan" /\ stage = "wbs"
        BY <1>3, <2>1, WrittenDocs DEF Kinds, ProduceWbs
    <2>3. PrdSound' /\ BacklogSound'
        BY <2>2 DEF Chain, PrdSound, BacklogSound, MvpIds, StoryIds
    <2>4. WbsSound'
        BY <2>1, <2>2 DEF WbsSound, WbsAccepted, MvpIds
    <2> QED BY <2>2, <2>3, <2>4 DEF Chain
<1>4. CASE ProducePlan
    <2>1. PICK out \in Plans :
            PlanAccepted(out, docs.wbs.items) /\ Written("plan", out, "gate1")
        BY <1>4 DEF ProducePlan
    <2>2. /\ DOMAIN docs' = Kinds /\ docs'.plan = out /\ docs'.prd = docs.prd
          /\ docs'.backlog = docs.backlog /\ docs'.wbs = docs.wbs
          /\ stage' = "gate1" /\ stage = "plan"
        BY <1>4, <2>1, WrittenDocs DEF Kinds, ProducePlan
    <2>3. PrdSound' /\ BacklogSound' /\ WbsSound'
        BY <2>2 DEF Chain, PrdSound, BacklogSound, WbsSound, MvpIds, StoryIds
    <2>4. PlanSound'
        BY <2>1, <2>2, HandoffsAssumption DEF PlanSound, PlanAccepted
    <2> QED BY <2>2, <2>3, <2>4 DEF Chain
<1>5. CASE ProduceArch
    <2>1. PICK out \in Archs : ArchAccepted(out, MvpIds) /\ Written("arch", out, "gate2")
        BY <1>5 DEF ProduceArch
    <2>2. /\ DOMAIN docs' = Kinds /\ docs'.arch = out /\ docs'.prd = docs.prd
          /\ docs'.backlog = docs.backlog /\ docs'.wbs = docs.wbs
          /\ docs'.plan = docs.plan /\ stage' = "gate2" /\ stage = "arch"
        BY <1>5, <2>1, WrittenDocs DEF Kinds, ProduceArch
    <2>3. PrdSound' /\ BacklogSound' /\ WbsSound' /\ PlanSound'
        BY <2>2 DEF Chain, PrdSound, BacklogSound, WbsSound, PlanSound, MvpIds, StoryIds
    <2>4. ArchSound'
        BY <2>1, <2>2 DEF ArchSound, ArchAccepted, MvpIds
    <2> QED BY <2>2, <2>3, <2>4 DEF Chain
<1>6. CASE ProduceUx \/ ProduceUi
    <2>1. /\ DOMAIN docs' = Kinds /\ docs'.prd = docs.prd
          /\ docs'.backlog = docs.backlog /\ docs'.wbs = docs.wbs
          /\ docs'.plan = docs.plan /\ docs'.arch = docs.arch
          /\ stage \in {"ux", "ui"}
        BY <1>6, WrittenDocs DEF Kinds, ProduceUx, ProduceUi
    <2>2. PrdSound' /\ BacklogSound' /\ WbsSound' /\ PlanSound' /\ ArchSound'
        BY <2>1 DEF Chain, PrdSound, BacklogSound, WbsSound, PlanSound, ArchSound,
                    MvpIds, StoryIds
    <2> QED BY <2>1, <2>2 DEF Chain
<1>7. CASE Gate1 \/ Gate2
    <2>1. /\ docs' = docs
          /\ \/ stage = "gate1" /\ stage' \in {"backlog", "arch"}
             \/ stage = "gate2" /\ stage' \in {"arch", "ux", "derive"}
        BY <1>7 DEF Gate1, Gate2, Gate
    <2>2. /\ PrdSound' <=> PrdSound
          /\ BacklogSound' <=> BacklogSound
          /\ WbsSound' <=> WbsSound
          /\ PlanSound' <=> PlanSound
          /\ ArchSound' <=> ArchSound
        BY <2>1 DEF PrdSound, BacklogSound, WbsSound, PlanSound, ArchSound,
                    MvpIds, StoryIds
    <2> QED BY <2>1, <2>2 DEF Chain
<1> QED BY <1>1, <1>2, <1>3, <1>4, <1>5, <1>6, <1>7 DEF Planning

LEMMA PlanningStep ==
    ASSUME IInv, Planning, ~ DeriveTickets
    PROVE  IInv'
<1>1. Chain'
    BY PlanningChain DEF IInv
<1>2. /\ UNCHANGED ticketing /\ ~ Ticketed /\ stage' \notin {"build", "rest"}
    BY DEF Planning, StagePrd, ProduceBacklog, ProduceWbs, ProducePlan, ProduceArch,
           ProduceUx, ProduceUi, Gate1, Gate2, Gate, Written, Ticketed
<1> QED BY <1>1, <1>2, PlanningKeeps

-----------------------------------------------------------------------------
(* The tickets                                                             *)

LEMMA UpsertedEntries ==
    ASSUME NEW new, NEW old
    PROVE  /\ DOMAIN Upserted(new, old) = DOMAIN new \cup DOMAIN old
           /\ \A t \in DOMAIN new : Upserted(new, old)[t] = new[t]
           /\ \A t \in DOMAIN old : t \notin DOMAIN new => Upserted(new, old)[t] = old[t]
BY DEF Upserted

\* Documents that do not change.
LEMMA SameDocs ==
    ASSUME docs' = docs
    PROVE  /\ Chain /\ stage' = stage => Chain'
           /\ StoryIds' = StoryIds
           /\ \A x : Story(docs.prd, x)' = Story(docs.prd, x)
           /\ \A x : Item(x)' = Item(x)
           /\ \A x : Serving(x)' = Serving(x)
BY DEF Chain, PrdSound, BacklogSound, WbsSound, PlanSound, ArchSound, MvpIds, StoryIds,
       Item, Serving

LEMMA DeriveStep ==
    ASSUME IInv, DeriveTickets
    PROVE  IInv'
<1> DEFINE StoryFor(i) == Story(docs.prd, Item(docs.plan[i]).story)
           made == [i \in DOMAIN docs.plan |->
                      TicketDict(docs.plan[i], StoryFor(i), DesignFor(StoryFor(i).id))]
           todo == [i \in DOMAIN made |-> Unbuilt("todo")]
<1>1. /\ stage = "derive" /\ stage' = "build"
      /\ tickets' = Upserted(made, tickets)
      /\ builds' = Upserted(todo, builds)
      /\ queue' = [i \in DOMAIN made |-> i]
      /\ UNCHANGED <<docs, work, main, changing, changes>>
    BY DEF DeriveTickets
<1>2. DOMAIN made = DOMAIN docs.plan /\ DOMAIN todo = DOMAIN docs.plan
    OBVIOUS
<1>3. /\ Chain' /\ PrdSound /\ PlanSound
    BY <1>1 DEF IInv, Chain, BeforePrd, BeforeBacklog, BeforeWbs, BeforePlan, BeforeArch,
                PrdSound, BacklogSound, WbsSound, PlanSound, ArchSound, MvpIds, StoryIds
<1>4. \A t \in DOMAIN docs.plan : Item(docs.plan[t]).story \in StoryIds
    BY <1>1, PlannedStory
    DEF IInv, BeforePrd, BeforeBacklog, BeforeWbs, BeforePlan
<1>5. ASSUME NEW t \in DOMAIN docs.plan
      PROVE  /\ made[t].item = docs.plan[t]
             /\ made[t].story = Item(docs.plan[t]).story
             /\ made[t].acs = StoryFor(t).acs
             /\ made[t].components = Serving(made[t].story)
    BY <1>4, TicketOf
<1> HIDE DEF made, todo
<1>6. /\ DOMAIN tickets' = DOMAIN docs.plan \cup DOMAIN tickets
      /\ \A t \in DOMAIN docs.plan : tickets'[t] = made[t]
    <2>1. tickets' = Upserted(made, tickets)
        BY <1>1
    <2>2. /\ DOMAIN Upserted(made, tickets) = DOMAIN made \cup DOMAIN tickets
          /\ \A t \in DOMAIN made : Upserted(made, tickets)[t] = made[t]
        BY UpsertedEntries
    <2> QED BY <1>2, <2>1, <2>2
<1>7. /\ DOMAIN builds' = DOMAIN docs.plan \cup DOMAIN builds
      /\ \A t \in DOMAIN docs.plan : builds'[t] = todo[t]
      /\ \A t \in DOMAIN builds : t \notin DOMAIN docs.plan => builds'[t] = builds[t]
    BY <1>1, <1>2, UpsertedEntries
<1>8. DOMAIN builds' = DOMAIN tickets'
    BY <1>6, <1>7 DEF IInv
<1>9. TicketsFit'
    BY <1>1, <1>5, <1>6, SameDocs DEF TicketsFit
<1>10. Passed' = {} /\ Tested' /\ DismissedInWriting'
    <2>1. Passed = {}
        BY <1>1 DEF IInv, Tested, Ticketed
    <2>2. \A t \in DOMAIN docs.plan : builds'[t].at = "todo"
        BY <1>7 DEF todo, made, Unbuilt
    <2>3. Passed' = {}
        BY <1>7, <2>1, <2>2 DEF Passed
    <2> QED BY <2>3 DEF Tested, DismissedInWriting
<1>11. Current'
    <2>1. work.step = None /\ work' = work
        BY <1>1 DEF IInv, Current
    <2>2. queue' \in Seq(DOMAIN docs.plan)
        <3>1. docs.plan \in Seq(STRING)
            BY <1>3 DEF PlanSound
        <3>2. DOMAIN docs.plan = 1..Len(docs.plan) /\ Len(docs.plan) \in Nat
            BY <3>1
        <3>3. queue' = [i \in 1..Len(docs.plan) |-> i]
            BY <1>1, <1>2, <3>2
        <3> QED BY <3>2, <3>3
    <2>3. \A t \in DOMAIN docs.plan : UpToDate(t)'
        <3> SUFFICES ASSUME NEW t \in DOMAIN docs.plan PROVE UpToDate(t)'
            OBVIOUS
        <3> DEFINE x == Item(docs.plan[t]).story
        <3>1. tickets'[t].story = x /\ tickets'[t].acs = Story(docs.prd, x).acs
            BY <1>5, <1>6
        <3>2. x \in StoryIds'
            BY <1>1, <1>4, SameDocs
        <3>3. Story(docs.prd, x)' = Story(docs.prd, x)
            BY <1>1, SameDocs
        <3> HIDE DEF x
        <3> QED BY <1>1, <3>1, <3>2, <3>3 DEF UpToDate
    <2> QED BY <1>1, <2>1, <2>2, <2>3 DEF Current
<1>12. Scanned'
    BY <1>1 DEF IInv, Scanned
<1> QED BY <1>3, <1>8, <1>9, <1>10, <1>11, <1>12 DEF IInv

-----------------------------------------------------------------------------
(* One ticket                                                              *)

\* A step that writes to no document, ticket or build.
LEMMA QuietKeeps ==
    ASSUME IInv, UNCHANGED <<docs, tickets, builds>>,
           stage' = stage \/ (stage = "build" /\ stage' = "rest") \/ stage' = "over",
           ~ Ticketed => stage' # "rest"
    PROVE  /\ DOMAIN builds' = DOMAIN tickets'
           /\ Chain' /\ TicketsFit' /\ DismissedInWriting'
           /\ (Ticketed => Ticketed') => Tested'
           /\ \A t : UpToDate(t)' <=> UpToDate(t)
<1>1. /\ StoryIds' = StoryIds
      /\ \A x : Story(docs.prd, x)' = Story(docs.prd, x)
      /\ \A x : Item(x)' = Item(x)
      /\ \A x : Serving(x)' = Serving(x)
    BY SameDocs
<1>2. Chain'
    BY DEF IInv, Chain, PrdSound, BacklogSound, WbsSound, PlanSound, ArchSound, MvpIds,
           StoryIds, BeforePrd, BeforeBacklog, BeforeWbs, BeforePlan, BeforeArch
<1>3. TicketsFit'
    BY <1>1 DEF IInv, TicketsFit, Ticketed
<1>4. DismissedInWriting'
    BY DEF IInv, DismissedInWriting, Passed
<1>5. (Ticketed => Ticketed') => Tested'
    BY <1>1 DEF IInv, Tested, Passed
<1>6. ASSUME NEW t PROVE UpToDate(t)' <=> UpToDate(t)
    <2>1. Story(docs.prd, tickets[t].story)' = Story(docs.prd, tickets[t].story)
        BY SameDocs
    <2> QED BY <1>1, <2>1 DEF UpToDate
<1> QED BY <1>2, <1>3, <1>4, <1>5, <1>6 DEF IInv

\* The next step of the ticket under way.
LEMMA ToKeeps ==
    ASSUME IInv, work.step # None, NEW step, NEW tree, NEW dismissed,
           To(step, tree, dismissed),
           step \in {"review", "qa"} => (tree \ dismissed) \cap Blocking \cap BuiltIn = {}
    PROVE  IInv'
<1>1. /\ work' = [step |-> step, tree |-> tree, dismissed |-> dismissed]
      /\ UNCHANGED <<stage, docs, tickets, builds, queue, changing>>
    BY DEF To
<1>2. /\ DOMAIN builds' = DOMAIN tickets' /\ Chain' /\ TicketsFit' /\ DismissedInWriting'
      /\ Tested' /\ \A t : UpToDate(t)' <=> UpToDate(t)
    BY <1>1, QuietKeeps DEF Ticketed
<1>3. Current'
    <2>1. UpToDate(t0)' <=> UpToDate(t0)
        BY <1>1, <1>2 DEF t0, UpToDate, StoryIds, Story
    <2> QED BY <1>1, <1>2, <2>1 DEF IInv, Current, t0
<1>4. Scanned'
    BY <1>1 DEF Scanned
<1> QED BY <1>2, <1>3, <1>4 DEF IInv

\* What SetToSeq lists is the set.
LEMMA SetToSeqIs ==
    ASSUME NEW S, IsFiniteSet(S)
    PROVE  ToSet(SetToSeq(S)) \subseteq S
<1>1. ExistsBijection(1..Cardinality(S), S)
    BY FS_CardinalityType
<1>2. PICK f \in Bijection(1..Cardinality(S), S) : TRUE
    BY <1>1 DEF ExistsBijection
<1>3. f \in [1..Cardinality(S) -> S] /\ IsInjective(f)
    BY <1>2 DEF Bijection, Injection, IsInjective
<1>4. SetToSeq(S) \in [1..Cardinality(S) -> S]
    BY <1>3 DEF SetToSeq
<1> QED BY <1>4 DEF ToSet

Entries == [finding : Flaws, status : {"confirmed", "false_positive"}, reason : BOOLEAN]

LEMMA EntriesFinite == IsFiniteSet(Entries)
<1> DEFINE D == Flaws \X ({"confirmed", "false_positive"} \X BOOLEAN)
           f == [d \in D |-> [finding |-> d[1], status |-> d[2][1], reason |-> d[2][2]]]
<1>1. IsFiniteSet({"confirmed", "false_positive"}) /\ IsFiniteSet(BOOLEAN)
    <2>1. /\ IsFiniteSet({"confirmed"}) /\ IsFiniteSet({"false_positive"})
          /\ IsFiniteSet({TRUE}) /\ IsFiniteSet({FALSE})
        BY FS_Singleton
    <2>2. /\ IsFiniteSet({"confirmed"} \cup {"false_positive"})
          /\ IsFiniteSet({TRUE} \cup {FALSE})
        BY <2>1, FS_Union
    <2>3. /\ {"confirmed", "false_positive"} = {"confirmed"} \cup {"false_positive"}
          /\ BOOLEAN = {TRUE} \cup {FALSE}
        OBVIOUS
    <2> QED BY <2>2, <2>3
<1>2. IsFiniteSet(D)
    BY <1>1, FS_Product, HandoffsAssumption
<1>3. f \in Surjection(D, Entries)
    <2>1. f \in [D -> Entries]
        BY DEF Entries
    <2>2. ASSUME NEW e \in Entries PROVE \E d \in D : f[d] = e
        <3>1. <<e.finding, <<e.status, e.reason>>>> \in D
            BY DEF Entries
        <3>2. f[<<e.finding, <<e.status, e.reason>>>>] = e
            BY <3>1 DEF Entries
        <3> QED BY <3>1, <3>2
    <2> HIDE DEF f, D
    <2> QED BY <2>1, <2>2 DEF Surjection
<1> HIDE DEF f, D
<1> QED BY <1>2, <1>3, FS_Surjection

\* The entries of a triage are of the schema.
LEMMA TriageEntries ==
    ASSUME NEW triage \in Triages
    PROVE  ToSet(triage) \subseteq Entries
<1>1. PICK s : s \subseteq Entries /\ triage = SetToSeq(s)
    BY DEF Triages, Entries, kSubset
<1>2. IsFiniteSet(s)
    BY <1>1, EntriesFinite, FS_Subset
<1> QED BY <1>1, <1>2, SetToSeqIs

\* An accepted triage without a confirmed blocking finding has dismissed every
\* blocking one.
LEMMA TriageDismisses ==
    ASSUME NEW triage \in Triages, NEW found, TriageAccepted(triage, found),
           Triaged(triage, "confirmed") \cap Blocking = {}
    PROVE  found \cap Blocking \subseteq Triaged(triage, "false_positive")
<1> SUFFICES ASSUME NEW x \in found \cap Blocking
             PROVE  x \in Triaged(triage, "false_positive")
    OBVIOUS
<1>1. x \in Listed(triage, "finding")
    BY DEF TriageAccepted
<1>2. PICK i \in DOMAIN triage : triage[i].finding = x
    BY <1>1, ListedValues
<1>3. triage[i] \in ToSet(triage)
    BY DEF ToSet
<1>4. triage[i].status \in {"confirmed", "false_positive"}
    BY <1>3, TriageEntries DEF Entries
<1> QED BY <1>2, <1>3, <1>4 DEF Triaged

LEMMA SecurityKeeps ==
    ASSUME IInv, SecurityStep
    PROVE  IInv'
<1>1. work.step = "security"
    BY DEF SecurityStep, At
<1>2. PICK tools \in SUBSET CliScanners :
        \/ Findings(tools) = {} /\ To("review", work.tree, {})
        \/ \E triage \in Triages :
             IF /\ TriageAccepted(triage, Findings(tools))
                /\ Triaged(triage, "confirmed") \cap Blocking = {}
             THEN To("review", work.tree, Triaged(triage, "false_positive"))
             ELSE To("dev", work.tree, {})
    BY DEF SecurityStep
<1>3. work.tree \cap BuiltIn \subseteq Findings(tools)
    BY DEF Findings
<1>4. CASE Findings(tools) = {} /\ To("review", work.tree, {})
    <2>1. (work.tree \ {}) \cap Blocking \cap BuiltIn = {}
        BY <1>3, <1>4
    <2> QED BY <1>1, <1>4, <2>1, ToKeeps DEF None
<1>5. ASSUME NEW triage \in Triages, TriageAccepted(triage, Findings(tools)),
             Triaged(triage, "confirmed") \cap Blocking = {},
             To("review", work.tree, Triaged(triage, "false_positive"))
      PROVE  IInv'
    <2>1. Findings(tools) \cap Blocking \subseteq Triaged(triage, "false_positive")
        BY <1>5, TriageDismisses
    <2>2. (work.tree \ Triaged(triage, "false_positive")) \cap Blocking \cap BuiltIn = {}
        BY <1>3, <2>1
    <2> QED BY <1>1, <1>5, <2>2, ToKeeps DEF None
<1>6. CASE To("dev", work.tree, {})
    BY <1>1, <1>6, ToKeeps DEF None
<1> QED BY <1>2, <1>4, <1>5, <1>6

LEMMA DevelopKeeps ==
    ASSUME IInv, Develop
    PROVE  IInv'
<1>1. work.step = "dev"
    BY DEF Develop, At
<1>2. PICK out \in DevOutputs, kept \in SUBSET work.tree, next \in {"security", "dev"} :
        To(next, kept \cup out.flaws, {})
    BY DEF Develop
<1> QED BY <1>1, <1>2, ToKeeps DEF None

LEMMA ReviewKeeps ==
    ASSUME IInv, Review
    PROVE  IInv'
<1>1. work.step = "review"
    BY DEF Review, At
<1>2. To("qa", work.tree, work.dismissed) \/ To("dev", work.tree, {})
    BY DEF Review
<1>3. (work.tree \ work.dismissed) \cap Blocking \cap BuiltIn = {}
    BY <1>1 DEF IInv, Scanned
<1> QED BY <1>1, <1>2, <1>3, ToKeeps DEF None

LEMMA QaFailsKeeps ==
    ASSUME IInv, QaFails
    PROVE  IInv'
<1>1. work.step = "qa"
    BY DEF QaFails, At
<1>2. PICK tree : To("dev", tree, {})
    BY DEF QaFails
<1> QED BY <1>1, <1>2, ToKeeps DEF None

LEMMA StartKeeps ==
    ASSUME IInv, StartTicket
    PROVE  IInv'
<1>1. /\ stage = "build" /\ queue # <<>> /\ ~ changing
      /\ work' = [Waiting EXCEPT !.step = "dev", !.tree = main]
      /\ UNCHANGED <<stage, docs, tickets, builds, queue, changing>>
    BY DEF StartTicket
<1>2. /\ DOMAIN builds' = DOMAIN tickets' /\ Chain' /\ TicketsFit' /\ DismissedInWriting'
      /\ Tested' /\ \A t : UpToDate(t)' <=> UpToDate(t)
    BY <1>1, QuietKeeps DEF Ticketed
<1>3. t0 \in DOMAIN docs.plan /\ UpToDate(t0)
    BY <1>1 DEF IInv, Current, t0
<1>4. UpToDate(t0)' <=> UpToDate(t0)
    BY <1>1, <1>2 DEF t0, UpToDate, StoryIds, Story
<1>5. work'.step = "dev"
    BY <1>1 DEF Waiting
<1>6. Current'
    BY <1>1, <1>2, <1>3, <1>4 DEF IInv, Current
<1>7. Scanned'
    BY <1>5 DEF Scanned
<1> QED BY <1>2, <1>6, <1>7 DEF IInv

\* What holds when the ticket is over, whatever is recorded of it.
LEMMA CloseKeeps ==
    ASSUME IInv, stage = "build", work.step # None, NEW build, NEW files, Close(build, files),
           build.at = "passed" =>
               /\ tickets[t0].acs \subseteq build.tested
               /\ build.open \cap Blocking \cap BuiltIn \subseteq QaFlaws
    PROVE  IInv'
<1>1. /\ builds' = [builds EXCEPT ![t0] = build]
      /\ queue' = Tail(queue) /\ work' = Waiting
      /\ stage' = IF Tail(queue) = <<>> THEN "rest" ELSE stage
      /\ changing' = (changing /\ Tail(queue) # <<>>)
      /\ UNCHANGED <<docs, tickets>>
    BY DEF Close
<1>2. /\ StoryIds' = StoryIds
      /\ \A x : Story(docs.prd, x)' = Story(docs.prd, x)
      /\ \A x : Item(x)' = Item(x)
      /\ \A x : Serving(x)' = Serving(x)
    BY <1>1, SameDocs
<1>3. DOMAIN builds' = DOMAIN tickets' /\ Ticketed /\ Ticketed'
    BY <1>1 DEF IInv, Ticketed
<1>4. Chain'
    BY <1>1 DEF IInv, Chain, PrdSound, BacklogSound, WbsSound, PlanSound, ArchSound, MvpIds,
           StoryIds, BeforePrd, BeforeBacklog, BeforeWbs, BeforePlan, BeforeArch
<1>5. TicketsFit'
    BY <1>1, <1>2, <1>3 DEF IInv, TicketsFit
<1>6. \A t : UpToDate(t)' <=> UpToDate(t)
    <2> SUFFICES ASSUME NEW t PROVE UpToDate(t)' <=> UpToDate(t)
        OBVIOUS
    <2>1. Story(docs.prd, tickets[t].story)' = Story(docs.prd, tickets[t].story)
        BY <1>1, SameDocs
    <2> QED BY <1>1, <1>2, <2>1 DEF UpToDate
<1>7. Current'
    <2>1. work'.step = None
        BY <1>1 DEF Waiting
    <2>2. ASSUME stage' = "build", ~ changing'
          PROVE  queue' \in Seq(DOMAIN docs'.plan) /\ \A t \in DOMAIN docs'.plan : UpToDate(t)'
        <3>1. Tail(queue) # <<>> /\ ~ changing
            BY <1>1, <2>2
        <3>2. queue \in Seq(DOMAIN docs.plan) /\ queue # <<>>
            BY <3>1 DEF IInv, Current
        <3>3. Tail(queue) \in Seq(DOMAIN docs.plan)
            BY <3>2
        <3>4. \A t \in DOMAIN docs.plan : UpToDate(t)
            BY <3>1 DEF IInv, Current
        <3> QED BY <1>1, <1>6, <3>3, <3>4
    <2> QED BY <2>1, <2>2 DEF Current
<1>8. ASSUME NEW t \in Passed'
      PROVE  \/ t \in Passed /\ builds'[t] = builds[t]
             \/ t = t0 /\ t0 \in DOMAIN tickets /\ builds'[t] = build /\ build.at = "passed"
    BY <1>1, <1>3 DEF Passed, IInv
<1>9. Tested'
    <2> SUFFICES ASSUME NEW t \in Passed'
                 PROVE  /\ tickets[t].story \in StoryIds
                        /\ Story(docs.prd, tickets[t].story).acs \subseteq builds'[t].tested
        <3>1. \A t : Story(docs.prd, tickets[t].story)' = Story(docs.prd, tickets[t].story)
            BY <1>1, SameDocs
        <3> QED BY <1>1, <1>2, <1>3, <3>1 DEF Tested
    <2>1. CASE t \in Passed /\ builds'[t] = builds[t]
        BY <2>1 DEF IInv, Tested
    <2>2. CASE t = t0 /\ t0 \in DOMAIN tickets /\ builds'[t] = build /\ build.at = "passed"
        BY <2>2 DEF IInv, Current, UpToDate
    <2> QED BY <1>8, <2>1, <2>2
<1>10. DismissedInWriting'
    BY <1>8 DEF IInv, DismissedInWriting
<1>11. Scanned'
    BY <1>1 DEF Scanned, Waiting, None
<1> QED BY <1>3, <1>4, <1>5, <1>7, <1>9, <1>10, <1>11 DEF IInv

\* The plan of an accepted QA output covers the criteria it was shown; what it
\* adds to the scanned files are files of its own.
LEMMA QaPassesKeeps ==
    ASSUME IInv, QaPasses
    PROVE  IInv'
<1>1. stage = "build" /\ work.step = "qa"
    BY DEF QaPasses, At
<1> DEFINE Files(out) == (work.tree \ QaFlaws) \cup out.flaws
           Build(out) == [at |-> "passed", tested |-> out.plan,
                          open |-> Files(out) \ work.dismissed]
<1>2. PICK out \in QaOutputs : /\ QaAccepted(out, t0, tickets[t0].acs)
                               /\ Close(Build(out), Files(out))
    BY DEF QaPasses
<1>3. tickets[t0].acs \subseteq Build(out).tested
    BY <1>2 DEF QaAccepted
<1>4. out.flaws \subseteq QaFlaws
    BY DEF QaOutputs
<1>5. (work.tree \ work.dismissed) \cap Blocking \cap BuiltIn = {}
    BY <1>1 DEF IInv, Scanned
<1>6. Build(out).open \cap Blocking \cap BuiltIn \subseteq QaFlaws
    BY <1>4, <1>5
<1> HIDE DEF Build, Files
<1> QED BY <1>1, <1>2, <1>3, <1>6, CloseKeeps DEF None

LEMMA EscalateKeeps ==
    ASSUME IInv, Escalate
    PROVE  IInv'
<1>1. stage = "build" /\ work.step = "dev" /\ Close(Unbuilt("escalated"), main)
    BY DEF Escalate, At
<1>2. Unbuilt("escalated").at # "passed"
    BY DEF Unbuilt
<1> QED BY <1>1, <1>2, CloseKeeps DEF None

\* A call that ends early: what was passed before, stays so.
LEMMA AbandonKeeps ==
    ASSUME IInv, Abandon
    PROVE  IInv'
<1>1. /\ stage \notin {"rest", "over"}
      /\ stage' = IF stage = "build" THEN "rest" ELSE "over"
      /\ work' = Waiting
      /\ UNCHANGED <<docs, tickets, builds>>
    BY DEF Abandon
<1>2. Ticketed => Ticketed'
    BY <1>1 DEF Ticketed
<1>3. /\ DOMAIN builds' = DOMAIN tickets' /\ Chain' /\ TicketsFit' /\ DismissedInWriting'
      /\ Tested'
    BY <1>1, <1>2, QuietKeeps DEF Ticketed
<1>4. Current' /\ Scanned'
    BY <1>1 DEF Current, Scanned, Waiting, None
<1> QED BY <1>3, <1>4 DEF IInv

-----------------------------------------------------------------------------
(* Change requests                                                         *)

\* New criteria change one story, and the others are found as before.
LEMMA AmendedStories ==
    ASSUME PrdSound, NEW x, NEW acs \in ChangedCriteria
    PROVE  /\ AmendedPrd(x, acs) \in Seq(StoryRecords)
           /\ Unique(AmendedPrd(x, acs), "id")
           /\ Listed(AmendedPrd(x, acs), "id") = StoryIds
           /\ \A y \in StoryIds : y # x =>
                Story(AmendedPrd(x, acs), y) = Story(docs.prd, y)
<1> DEFINE prd == docs.prd
           amended == AmendedPrd(x, acs)
<1>1. prd \in Seq(StoryRecords) /\ Unique(prd, "id")
    BY DEF PrdSound
<1>2. acs \subseteq Criteria
    BY HandoffsAssumption
<1>3. /\ DOMAIN amended = DOMAIN prd
      /\ \A i \in DOMAIN prd :
           /\ amended[i] \in StoryRecords
           /\ amended[i].id = prd[i].id
           /\ prd[i].id # x => amended[i] = prd[i]
    <2>1. \A i \in DOMAIN prd : prd[i] \in StoryRecords
        BY <1>1
    <2> QED BY <1>2, <2>1 DEF AmendedPrd, StoryRecords
<1> HIDE DEF amended
<1>4. amended \in Seq(StoryRecords)
    <2>1. DOMAIN prd = 1..Len(prd) /\ Len(prd) \in Nat
        BY <1>1
    <2>2. amended = [i \in DOMAIN prd |-> amended[i]]
        BY DEF amended, AmendedPrd
    <2>3. amended \in [1..Len(prd) -> StoryRecords]
        BY <1>3, <2>1, <2>2
    <2> QED BY <2>1, <2>3
<1>5. Column(amended, "id") = Column(prd, "id")
    BY <1>3 DEF Column
<1>6. Unique(amended, "id") /\ Listed(amended, "id") = StoryIds
    BY <1>1, <1>5 DEF Unique, Listed, StoryIds
<1>7. ASSUME NEW y \in StoryIds, y # x
      PROVE  Story(amended, y) = Story(prd, y)
    <2>1. PICK i \in DOMAIN prd : prd[i].id = y
        BY ListedValues DEF StoryIds
    <2>2. amended[i] = prd[i] /\ i \in DOMAIN amended
        BY <1>3, <1>7, <2>1
    <2>3. Story(amended, amended[i].id) = amended[i]
        BY <1>6, <2>2, StoryIs
    <2>4. Story(prd, prd[i].id) = prd[i]
        BY <1>1, StoryIs
    <2> QED BY <2>1, <2>2, <2>3, <2>4
<1> QED BY <1>4, <1>6, <1>7 DEF amended

LEMMA ChangeRequestKeeps ==
    ASSUME IInv, ChangeRequest
    PROVE  IInv'
<1>1. PICK x : \E prd \in {docs.prd} \cup {AmendedPrd(x, acs) : acs \in ChangedCriteria} :
        /\ docs' = [docs EXCEPT !.prd = prd]
        /\ builds' = [t \in DOMAIN builds |->
                        IF t \in Affected(x) THEN Unbuilt("stale") ELSE builds[t]]
    BY DEF ChangeRequest
<1>2. PICK prd \in {docs.prd} \cup {AmendedPrd(x, acs) : acs \in ChangedCriteria} :
        docs' = [docs EXCEPT !.prd = prd]
    BY <1>1
<1>3. /\ stage = "rest" /\ stage' = "build" /\ changing' = TRUE
      /\ UNCHANGED <<tickets, work>>
    BY DEF ChangeRequest
<1>4. PrdSound /\ BacklogSound /\ WbsSound /\ PlanSound /\ ArchSound /\ DOMAIN docs = Kinds
    BY <1>3 DEF IInv, Chain, BeforePrd, BeforeBacklog, BeforeWbs, BeforePlan, BeforeArch
<1>5. /\ docs'.prd = prd /\ DOMAIN docs' = Kinds
      /\ docs'.backlog = docs.backlog /\ docs'.wbs = docs.wbs
      /\ docs'.plan = docs.plan /\ docs'.arch = docs.arch
    BY <1>2, <1>4 DEF Kinds
<1>6. /\ prd \in Seq(StoryRecords) /\ Unique(prd, "id") /\ Listed(prd, "id") = StoryIds
      /\ \A y \in StoryIds : y # x => Story(prd, y) = Story(docs.prd, y)
    <2>1. CASE prd = docs.prd
        BY <1>4, <2>1 DEF PrdSound, StoryIds
    <2>2. ASSUME NEW acs \in ChangedCriteria, prd = AmendedPrd(x, acs)
          PROVE  /\ prd \in Seq(StoryRecords) /\ Unique(prd, "id")
                 /\ Listed(prd, "id") = StoryIds
                 /\ \A y \in StoryIds : y # x => Story(prd, y) = Story(docs.prd, y)
        BY <1>4, <2>2, AmendedStories
    <2> QED BY <2>1, <2>2
<1>7. PrdSound' /\ StoryIds' = StoryIds
    BY <1>5, <1>6 DEF PrdSound, StoryIds
<1>8. Chain'
    <2>1. BacklogSound' /\ WbsSound' /\ PlanSound' /\ ArchSound'
        BY <1>4, <1>5, <1>7 DEF BacklogSound, WbsSound, PlanSound, ArchSound, MvpIds
    <2> QED BY <1>5, <1>7, <2>1 DEF Chain
<1>9. TicketsFit'
    <2>1. /\ \A y : Item(y)' = Item(y)
          /\ \A y : Serving(y)' = Serving(y)
        BY <1>5 DEF Item, Serving
    <2> QED BY <1>3, <1>5, <2>1 DEF IInv, TicketsFit, Ticketed
<1>10. DOMAIN builds' = DOMAIN tickets'
    BY <1>1, <1>3 DEF IInv
<1>11. ASSUME NEW t \in Passed'
       PROVE  t \in Passed /\ builds'[t] = builds[t] /\ tickets[t].story # x
    BY <1>1, <1>3, <1>10 DEF Passed, Affected, Unbuilt
<1>12. Tested'
    <2> SUFFICES ASSUME NEW t \in Passed'
                 PROVE  /\ tickets[t].story \in StoryIds
                        /\ Story(prd, tickets[t].story).acs \subseteq builds'[t].tested
        <3>1. \A t : Story(docs.prd, tickets[t].story)' = Story(prd, tickets[t].story)
            BY <1>3, <1>5 DEF Story
        <3> QED BY <1>3, <1>7, <3>1 DEF Tested, Ticketed
    <2>1. /\ t \in Passed /\ builds'[t] = builds[t] /\ tickets[t].story # x
        BY <1>11
    <2>2. /\ tickets[t].story \in StoryIds
          /\ Story(docs.prd, tickets[t].story).acs \subseteq builds[t].tested
        BY <2>1 DEF IInv, Tested
    <2> QED BY <1>6, <2>1, <2>2
<1>13. DismissedInWriting'
    BY <1>11 DEF IInv, DismissedInWriting
<1>14. Current' /\ Scanned'
    BY <1>3 DEF IInv, Current, Scanned
<1> QED BY <1>8, <1>9, <1>10, <1>12, <1>13, <1>14 DEF IInv

\* The ticket derived anew keeps its item and story and has the criteria of now.
LEMMA RederiveKeeps ==
    ASSUME IInv, RederiveTicket
    PROVE  IInv'
<1>1. /\ stage = "build" /\ changing /\ queue # <<>> /\ work.step = None
      /\ UNCHANGED <<docs, builds>>
    BY DEF RederiveTicket
<1>2. CASE ~ Known(t0)
    <2>1. /\ stage' = "rest" /\ UNCHANGED <<tickets, work>>
        BY <1>2 DEF RederiveTicket
    <2>2. /\ DOMAIN builds' = DOMAIN tickets' /\ Chain' /\ TicketsFit' /\ Tested'
          /\ DismissedInWriting'
        BY <1>1, <2>1, QuietKeeps DEF Ticketed
    <2>3. Current' /\ Scanned'
        BY <1>1, <2>1 DEF Current, Scanned, None
    <2> QED BY <2>2, <2>3 DEF IInv
<1>3. CASE Known(t0)
    <2> DEFINE x == tickets[t0].story
    <2>1. /\ tickets' = [tickets EXCEPT ![t0] = Renewed(t0)]
          /\ work' = [Waiting EXCEPT !.step = "dev", !.tree = main]
          /\ UNCHANGED <<stage, queue, changing>>
        BY <1>3 DEF RederiveTicket
    <2>2. x \in StoryIds
        BY <1>3 DEF Known
    <2>3. /\ Renewed(t0).item = tickets[t0].item /\ Renewed(t0).story = x
          /\ Renewed(t0).acs = Story(docs.prd, x).acs
          /\ Renewed(t0).components = Serving(x)
        BY <2>2, TicketOf DEF Renewed
    <2>4. /\ StoryIds' = StoryIds
          /\ \A y : Story(docs.prd, y)' = Story(docs.prd, y)
          /\ \A y : Item(y)' = Item(y)
          /\ \A y : Serving(y)' = Serving(y)
        BY <1>1, SameDocs
    <2>5. DOMAIN tickets' = DOMAIN tickets /\ DOMAIN builds' = DOMAIN tickets'
        BY <1>1, <2>1 DEF IInv
    <2>6. ASSUME NEW t \in DOMAIN tickets
          PROVE  /\ tickets'[t].item = tickets[t].item
                 /\ tickets'[t].story = tickets[t].story
                 /\ \/ tickets'[t].components = tickets[t].components
                    \/ tickets'[t].components = Serving(tickets[t].story)
        <3>1. CASE t = t0
            <4>1. tickets'[t] = Renewed(t0)
                BY <2>1, <3>1
            <4> QED BY <2>3, <3>1, <4>1
        <3>2. CASE t # t0
            BY <2>1, <3>2
        <3> QED BY <3>1, <3>2
    <2>7. Chain'
        BY <1>1, <2>1, SameDocs DEF IInv
    <2>8. TicketsFit'
        <3> SUFFICES ASSUME NEW t \in DOMAIN docs.plan
                     PROVE  /\ t \in DOMAIN tickets'
                            /\ tickets'[t].item = docs.plan[t]
                            /\ tickets'[t].story = Item(docs.plan[t]).story
                            /\ tickets'[t].components = Serving(tickets'[t].story)
            <4>1. \A t : Serving(tickets[t].story)' = Serving(tickets'[t].story)
                BY <1>1 DEF Serving
            <4> QED BY <1>1, <2>4, <4>1 DEF TicketsFit
        <3>1. /\ t \in DOMAIN tickets
              /\ tickets[t].item = docs.plan[t]
              /\ tickets[t].story = Item(docs.plan[t]).story
              /\ tickets[t].components = Serving(tickets[t].story)
            BY <1>1 DEF IInv, TicketsFit, Ticketed
        <3> QED BY <2>5, <2>6, <3>1
    <2>9. Tested'
        <3> SUFFICES ASSUME NEW t \in Passed
                     PROVE  /\ tickets'[t].story \in StoryIds
                            /\ Story(docs.prd, tickets'[t].story).acs \subseteq builds[t].tested
            BY <1>1, <2>1, <2>4 DEF Tested, Passed, Ticketed, Story
        <3>1. t \in DOMAIN tickets
            BY DEF Passed, IInv
        <3>2. tickets'[t].story = tickets[t].story
            BY <2>6, <3>1
        <3> QED BY <3>2 DEF IInv, Tested
    <2>10. DismissedInWriting'
        BY <1>1 DEF IInv, DismissedInWriting, Passed
    <2>11. Current'
        <3>1. ASSUME t0 \in DOMAIN tickets'
              PROVE  UpToDate(t0)'
            <4>1. tickets'[t0] = Renewed(t0)
                BY <2>1, <2>5, <3>1
            <4>2. tickets'[t0].story = x /\ tickets'[t0].acs = Story(docs.prd, x).acs
                BY <2>3, <4>1
            <4>3. docs' = docs /\ t0' = t0
                BY <1>1, <2>1 DEF t0
            <4> HIDE DEF x
            <4> QED BY <2>2, <2>4, <4>2, <4>3 DEF UpToDate, Story
        <3>2. t0' = t0
            BY <2>1 DEF t0
        <3> QED BY <1>1, <2>1, <3>1, <3>2 DEF Current
    <2>12. Scanned'
        BY <2>1 DEF Scanned, Waiting
    <2> QED BY <2>5, <2>7, <2>8, <2>9, <2>10, <2>11, <2>12 DEF IInv
<1> QED BY <1>2, <1>3

-----------------------------------------------------------------------------
(* The theorems                                                            *)

LEMMA InitIInv == Init => IInv
<1> SUFFICES ASSUME Init PROVE IInv
    OBVIOUS
<1>1. /\ stage = "prd" /\ tickets = Earlier /\ work = Waiting
      /\ docs = [prd |-> None, backlog |-> None, wbs |-> None, plan |-> None,
                 arch |-> None, ux |-> None, ui |-> None]
      /\ builds = [t \in DOMAIN Earlier |-> Unbuilt("earlier")]
    BY DEF Init
<1>2. Passed = {}
    BY <1>1 DEF Passed, Unbuilt
<1>3. Chain
    <2>1. DOMAIN docs = Kinds
        BY <1>1 DEF Kinds
    <2> QED BY <1>1, <2>1 DEF Chain, BeforePrd, BeforeBacklog, BeforeWbs, BeforePlan, BeforeArch
<1>4. TicketsFit /\ Current /\ Tested /\ Scanned /\ DismissedInWriting
    BY <1>1, <1>2
    DEF TicketsFit, Ticketed, Current, Tested, Scanned, DismissedInWriting, Waiting, None
<1> QED BY <1>1, <1>3, <1>4 DEF IInv

LEMMA StepKeepsIInv == IInv /\ [Next]_vars => IInv'
<1> SUFFICES ASSUME IInv, [Next]_vars PROVE IInv'
    OBVIOUS
<1>1. CASE Planning
    BY <1>1, PlanningStep, DeriveStep
<1>2. CASE Building
    BY <1>2, StartKeeps, DevelopKeeps, SecurityKeeps, ReviewKeeps, QaFailsKeeps,
       QaPassesKeeps, EscalateKeeps DEF Building
<1>3. CASE Abandon \/ ChangeRequest \/ RederiveTicket
    BY <1>3, AbandonKeeps, ChangeRequestKeeps, RederiveKeeps
<1>4. CASE UNCHANGED vars
    <2>1. /\ DOMAIN builds' = DOMAIN tickets' /\ Chain' /\ TicketsFit' /\ Tested'
          /\ DismissedInWriting' /\ \A t : UpToDate(t)' <=> UpToDate(t)
        BY <1>4, QuietKeeps DEF vars, ticketing, Ticketed
    <2>2. UpToDate(t0)' <=> UpToDate(t0)
        BY <1>4 DEF vars, ticketing, t0, UpToDate, StoryIds, Story
    <2>3. Current' /\ Scanned'
        BY <1>4, <2>1, <2>2 DEF IInv, Current, Scanned, vars, ticketing, t0
    <2> QED BY <2>1, <2>3 DEF IInv
<1> QED BY <1>1, <1>2, <1>3, <1>4 DEF Next

\* The inductive invariant: what is handed on agrees with what it comes from
\* (run_project, _run_ticket, apply_change_request).
THEOREM HandoffsInvariant == Spec => []IInv
<1>1. Init => IInv
    BY InitIInv
<1>2. IInv /\ [Next]_vars => IInv'
    BY StepKeepsIInv
<1> QED BY <1>1, <1>2, PTL DEF Spec

\* A ticket that counts as passed was tested for every criterion its story has
\* now, also when change requests gave the story others (ac_ids of _run_ticket,
\* the tickets apply_change_request derives anew).
THEOREM HandoffsCurrentCriteriaTested == Spec => []CurrentCriteriaTested
<1>1. IInv => CurrentCriteriaTested
    BY DEF IInv, Tested, CurrentCriteriaTested
<1> QED BY <1>1, HandoffsInvariant, PTL

\* The tickets are those of the approved plan: one per WBS item, for every story
\* of the MVP and for none that the backlog cut (_derive_tickets).
THEOREM HandoffsScopeIsTicketed == Spec => []ScopeIsTicketed
<1>1. IInv => ScopeIsTicketed
    <2> SUFFICES ASSUME IInv, Ticketed PROVE ScopeIsTicketed
        BY DEF ScopeIsTicketed
    <2>1. stage \notin BeforePlan /\ Planned = DOMAIN docs.plan
        BY DEF Ticketed, Planned, BeforePrd, BeforeBacklog, BeforeWbs, BeforePlan
    <2>2. BacklogSound /\ WbsSound /\ PlanSound
        BY <2>1 DEF IInv, Chain, BeforePrd, BeforeBacklog, BeforeWbs, BeforePlan
    <2> DEFINE items == docs.wbs.items
               stories == {tickets[t].story : t \in Planned}
    <2>3. \A t \in Planned : /\ tickets[t].item = docs.plan[t]
                             /\ tickets[t].story = Item(docs.plan[t]).story
        BY <2>1 DEF IInv, TicketsFit
    <2>4. {tickets[t].item : t \in Planned} = Listed(items, "id")
        <3>1. ToSet(docs.plan) = Listed(items, "id")
            BY <2>2 DEF PlanSound
        <3>2. ToSet(docs.plan) = {docs.plan[t] : t \in Planned}
            BY <2>1 DEF ToSet
        <3> QED BY <2>3, <3>1, <3>2
    <2>5. stories \subseteq MvpIds
        BY <2>1, <2>3, PlannedStory DEF IInv
    <2>6. MvpIds \subseteq stories
        <3> SUFFICES ASSUME NEW x \in MvpIds PROVE x \in stories
            OBVIOUS
        <3>1. x \in Listed(items, "story")
            BY <2>2 DEF WbsSound
        <3>2. PICK i \in DOMAIN items : items[i].story = x
            BY <3>1, ListedValues
        <3>3. Item(items[i].id) = items[i]
            BY <2>2, ItemIs DEF WbsSound
        <3>4. items[i].id \in Listed(items, "id")
            BY ListedValues
        <3>5. PICK t \in Planned : docs.plan[t] = items[i].id
            BY <2>1, <2>2, <3>4 DEF PlanSound, ToSet
        <3> QED BY <2>3, <3>2, <3>3, <3>5
    <2>7. stories \cap docs.backlog.cut = {}
        BY <2>2, <2>5 DEF BacklogSound
    <2> QED BY <2>3, <2>4, <2>5, <2>6, <2>7 DEF ScopeIsTicketed
<1> QED BY <1>1, HandoffsInvariant, PTL

\* A planned ticket has a component of the approved architecture, and of those
\* only such as serve its story (_ticket_dict).
THEOREM HandoffsSlicesFit == Spec => []SlicesFit
<1>1. IInv => SlicesFit
    <2> SUFFICES ASSUME IInv, NEW t \in Planned
                 PROVE  /\ tickets[t].components # {}
                        /\ \A c \in ToSet(docs.arch) :
                             c.name \in tickets[t].components =>
                                 tickets[t].story \in c.stories
        BY DEF SlicesFit
    <2> DEFINE x == tickets[t].story
    <2>1. Ticketed /\ t \in DOMAIN docs.plan
        BY DEF Planned
    <2>2. ArchSound /\ stage \notin BeforePlan
        BY <2>1 DEF Ticketed, IInv, Chain, BeforePrd, BeforeBacklog, BeforeWbs, BeforePlan,
                    BeforeArch
    <2>3. x = Item(docs.plan[t]).story /\ tickets[t].components = Serving(x)
        BY <2>1 DEF IInv, TicketsFit
    <2>4. x \in Referenced(docs.arch, "stories")
        BY <2>1, <2>2, <2>3, PlannedStory DEF IInv, ArchSound
    <2>5. tickets[t].components # {}
        <3>1. PICK s \in Listed(docs.arch, "stories") : x \in s
            BY <2>4 DEF Referenced
        <3>2. PICK i \in DOMAIN docs.arch : docs.arch[i].stories = s
            BY <3>1, ListedValues
        <3>3. docs.arch[i] \in ToSet(docs.arch)
            BY DEF ToSet
        <3> QED BY <2>3, <3>1, <3>2, <3>3 DEF Serving
    <2>6. ASSUME NEW c \in ToSet(docs.arch), c.name \in tickets[t].components
          PROVE  x \in c.stories
        <3>1. PICK d \in ToSet(docs.arch) : x \in d.stories /\ d.name = c.name
            BY <2>3, <2>6 DEF Serving
        <3>2. PICK i \in DOMAIN docs.arch, j \in DOMAIN docs.arch :
                docs.arch[i] = c /\ docs.arch[j] = d
            BY DEF ToSet
        <3>3. i = j
            BY <2>2, <3>1, <3>2, UniqueValues DEF ArchSound
        <3> QED BY <3>1, <3>2, <3>3
    <2> QED BY <2>5, <2>6
<1> QED BY <1>1, HandoffsInvariant, PTL

\* What a passed ticket brings to main of the blocking flaws the built-in scanner
\* knows was dismissed with a reason or written by the QA agent
\* (_security_step, validate_security_triage).
THEOREM HandoffsDismissedInWriting == Spec => []DismissedInWriting
<1>1. IInv => DismissedInWriting
    BY DEF IInv
<1> QED BY <1>1, HandoffsInvariant, PTL

=============================================================================
