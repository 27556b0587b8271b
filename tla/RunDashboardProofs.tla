-------------------------- MODULE RunDashboardProofs --------------------------
(* Proofs about RunDashboard: the page always has a source of news until it    *)
(* has seen the end of its run, and is quiet after; and a subscription that    *)
(* lost nothing has brought, or will bring, every milestone. *)
EXTENDS RunDashboard, FiniteSetTheorems, SequenceTheorems, TLAPS

Timers == {"reconnect", "poll", "upgrade", "orphan"}

\* The socket or a timer that leads to one is there; while the page polls, the
\* timer that tries the socket again is.
NewsInv ==
  /\ timers \subseteq Timers
  /\ TerminalIsQuiet
  /\ watched # 0 /\ ~terminal =>
       /\ socket # "none" \/ "reconnect" \in timers \/ "upgrade" \in timers
       /\ link = "polling" => "upgrade" \in timers

page == <<watched, link, terminal, socket, timers>>

LEMMA NewsInit == Init => NewsInv
BY DEF Init, NewsInv, TerminalIsQuiet

LEMMA PageKeeps ==
  ASSUME NewsInv, UNCHANGED page
  PROVE  NewsInv'
BY DEF NewsInv, TerminalIsQuiet, page

\* Seeing the end clears what it must, once.
LEMMA EnterTerminalKeeps ==
  ASSUME NewsInv, NEW over, EnterTerminal(over), watched' = watched
  PROVE  NewsInv'
<1>1. CASE over /\ ~terminal
  <2>1. /\ terminal' = TRUE /\ socket' = "none"
        /\ timers' = timers \ {"reconnect", "poll", "upgrade"}
    BY <1>1 DEF EnterTerminal
  <2> QED
    BY <2>1 DEF NewsInv, TerminalIsQuiet, Timers
<1>2. CASE ~(over /\ ~terminal)
  <2>1. UNCHANGED link3
    BY <1>2 DEF EnterTerminal
  <2> QED
    BY <2>1, PageKeeps DEF link3, page
<1> QED
  BY <1>1, <1>2

\* Polling, or trying again, adds timers.
LEMMA RearmKeeps ==
  ASSUME NewsInv, UNCHANGED <<watched, link, terminal, socket>>,
         \/ timers' = timers
         \/ ~terminal /\ timers' = Rearmed
  PROVE  NewsInv'
BY DEF NewsInv, TerminalIsQuiet, Rearmed, Timers

LEMMA FollowKeeps ==
  ASSUME NEW run, Follow(run), NewsInv
  PROVE  NewsInv'
BY DEF Follow, NewsInv, TerminalIsQuiet, Timers

LEMMA LetGoKeeps ==
  ASSUME LetGo, NewsInv
  PROVE  NewsInv'
BY DEF LetGo, NewsInv, TerminalIsQuiet, Timers

LEMMA PollArrivesKeeps ==
  ASSUME NewsInv, PollArrives
  PROVE  NewsInv'
<1>1. PICK p \in polls :
        IF p.answer.over
        THEN EnterTerminal(TRUE)
        ELSE /\ timers' = IF p.chained /\ ~terminal /\ link = "polling"
                          THEN Rearmed ELSE timers
             /\ UNCHANGED <<link, terminal, socket, retries>>
  BY DEF PollArrives
<1>2. watched' = watched
  BY DEF PollArrives
<1>3. CASE p.answer.over
  BY <1>1, <1>2, <1>3, EnterTerminalKeeps
<1>4. CASE ~p.answer.over
  BY <1>1, <1>2, <1>4, RearmKeeps
<1> QED
  BY <1>3, <1>4

LEMMA BreakKeeps ==
  ASSUME NewsInv, Break
  PROVE  NewsInv'
<1>1. socket # "none" /\ socket' = "none" /\ UNCHANGED <<watched, terminal>>
  BY DEF Break
<1>2. watched # 0 => ~terminal
  BY <1>1 DEF NewsInv, TerminalIsQuiet
<1>3. CASE link = "polling" /\ UNCHANGED <<link, timers>>
  BY <1>1, <1>2, <1>3 DEF NewsInv, TerminalIsQuiet
<1>4. CASE link' = "reconnecting" /\ timers' = timers \cup {"reconnect"}
  BY <1>1, <1>2, <1>4 DEF NewsInv, TerminalIsQuiet, Timers
<1>5. CASE link' = "polling" /\ timers' = Rearmed \cup {"upgrade"}
  BY <1>1, <1>2, <1>5 DEF NewsInv, TerminalIsQuiet, Timers, Rearmed
<1> QED
  BY <1>3, <1>4, <1>5 DEF Break

LEMMA DeliverKeeps ==
  ASSUME NewsInv, Deliver
  PROVE  NewsInv'
<1>1. Handle(Head(queue)) /\ watched' = watched
  BY DEF Deliver
<1> DEFINE m == Head(queue)
<1>2. EnterTerminal(m.data.over) \/ EnterTerminal(m.over) \/ UNCHANGED link3
  BY <1>1 DEF Handle
<1>3. CASE EnterTerminal(m.data.over)
  BY <1>1, <1>3, EnterTerminalKeeps
<1>4. CASE EnterTerminal(m.over)
  BY <1>1, <1>4, EnterTerminalKeeps
<1>5. CASE UNCHANGED link3
  BY <1>1, <1>5, PageKeeps DEF link3, page
<1> QED
  BY <1>2, <1>3, <1>4, <1>5

\* The invariant holds in every reachable state, whatever is dropped, late or
\* lost.
THEOREM NewsInvariant == Spec => []NewsInv
<1>1. Init => NewsInv
  BY NewsInit
<1>2. NewsInv /\ [Next]_vars => NewsInv'
  <2> SUFFICES ASSUME NewsInv, [Next]_vars
               PROVE  NewsInv'
    OBVIOUS
  <2>1. CASE \/ Update \/ Milestone \/ SetTerminal \/ SetTerminalAgain \/ Restart
             \/ UNCHANGED vars
    BY <2>1, PageKeeps
       DEF Update, Milestone, SetTerminal, SetTerminalAgain, Restart, vars, link3,
           page
  <2>2. CASE PollArrives
    BY <2>2, PollArrivesKeeps
  <2>3. CASE PollFails
    BY <2>3, RearmKeeps DEF PollFails
  <2>4. CASE PollFires
    BY <2>4 DEF PollFires, NewsInv, TerminalIsQuiet
  <2>5. CASE Open
    BY <2>5 DEF Open, NewsInv, TerminalIsQuiet
  <2>6. CASE Break
    BY <2>6, BreakKeeps
  <2>7. CASE ReconnectFires
    BY <2>7 DEF ReconnectFires, Connect, NewsInv, TerminalIsQuiet
  <2>8. CASE UpgradeFires
    BY <2>8 DEF UpgradeFires, NewsInv, TerminalIsQuiet
  <2>9. CASE Deliver
    BY <2>9, DeliverKeeps
  <2>10. CASE StartRun
    <3>1. Follow(latest + 1) \/ UNCHANGED page
      BY <2>10 DEF StartRun, link3, page
    <3> QED
      BY <3>1, FollowKeeps, PageKeeps
  <2>11. CASE Reload
    BY <2>11 DEF Reload, NewsInv, TerminalIsQuiet
  <2>12. CASE Release \/ CheckArrives
    <3>1. LetGo \/ UNCHANGED page
      BY <2>12 DEF Release, CheckArrives, link3, page
    <3> QED
      BY <3>1, LetGoKeeps, PageKeeps
  <2>13. CASE Elapse \/ Check \/ CheckFails
    BY <2>13, PageKeeps DEF Elapse, Check, CheckFails, link3, page
  <2> QED
    BY <2>1, <2>2, <2>3, <2>4, <2>5, <2>6, <2>7, <2>8, <2>9, <2>10, <2>11, <2>12,
       <2>13 DEF Next
<1> QED
  BY <1>1, <1>2, PTL DEF Spec

\* For any number of runs, milestones, polls and reconnection attempts, a page
\* that has seen the end of its run has no connection left, and no timer that it
\* could clear.
THEOREM TerminalStaysQuiet == Spec => []TerminalIsQuiet
<1>1. NewsInv => TerminalIsQuiet
  BY DEF NewsInv
<1> QED
  BY <1>1, NewsInvariant, PTL

\* A page that has not seen the end of its run always has a connection, or a
\* timer that leads to one.
THEOREM RunIsNeverForgotten == Spec => []NeverForgotten
<1>1. NewsInv => NeverForgotten
  BY DEF NewsInv, NeverForgotten
<1> QED
  BY <1>1, NewsInvariant, PTL

-----------------------------------------------------------------------------
(* Types *)

LEMMA Bounds ==
  /\ MaxRuns \in Nat /\ QueueSize \in Nat /\ QueueSize > 0
  /\ MaxReconnects \in Nat /\ MaxPolls \in Nat /\ MaxPolls > 0
  /\ MaxRestarts \in Nat /\ MilestoneCap \in Nat /\ MilestoneCap > 0
BY DashboardAssumption

Messages ==
  [type : {"snapshot"}, data : Displays]
    \cup [type : {"update"}, over : BOOLEAN]
    \cup [type : {"milestone"}, sequence : Nat \ {0}]

ApiType ==
  /\ latest \in 0..MaxRuns /\ held \in {0, latest}
  /\ ended \subseteq 1..latest /\ settled \subseteq ended
  /\ sequence \in Nat /\ closing \in {0, 1} /\ restarts \in 0..MaxRestarts

WireType ==
  /\ queue \in Seq(Messages) /\ Len(queue) <= QueueSize
  /\ lossy \in BOOLEAN

PollType ==
  /\ IsFiniteSet(polls) /\ Cardinality(polls) <= MaxPolls
  /\ \A p \in polls : p.answer.telemetry \in Displays

LinkType ==
  /\ terminal \in BOOLEAN
  /\ link \in {"idle", "connecting", "live", "reconnecting", "polling",
               "terminal"}
  /\ socket \in {"none", "connecting", "open"}
  /\ retries \in 0..MaxReconnects
  /\ timers \subseteq Timers

\* A page that watches no run has no connection.
Idle ==
  watched = 0 =>
    socket = "none" /\ link # "polling" /\ timers \subseteq {"orphan"}

PageType ==
  /\ watched \in 0..latest /\ display \in Displays /\ quiet \in BOOLEAN
  /\ LinkType /\ Idle

Types == ApiType /\ WireType /\ PollType /\ PageType

LEMMA EmptyTyped ==
  /\ <<>> \in Seq(Messages) /\ Len(<<>>) = 0
  /\ NoDisplay \in Displays
BY DEF Displays

LEMMA TypesInit == Init => Types
<1> SUFFICES ASSUME Init PROVE Types
  OBVIOUS
<1>0. /\ queue = <<>> /\ latest = 0 /\ watched = 0 /\ display = NoDisplay
      /\ link = "idle" /\ socket = "none" /\ retries = 0 /\ timers = {}
  BY DEF Init
<1>b. lossy \in BOOLEAN /\ quiet \in BOOLEAN /\ terminal \in BOOLEAN
  BY Zenon DEF Init
<1>1. ApiType
  BY Bounds DEF Init, ApiType
<1>2. WireType
  BY <1>0, <1>b, Bounds, EmptyTyped DEF WireType
<1>3. PollType
  BY Bounds, FS_EmptySet DEF Init, PollType
<1>4. PageType
  <2>1. LinkType
    BY <1>0, <1>b, Bounds DEF LinkType, Timers
  <2>2. watched \in 0..latest /\ quiet \in BOOLEAN /\ display \in Displays
    BY <1>0, <1>b, EmptyTyped
  <2>3. Idle
    BY <1>0 DEF Idle
  <2> QED
    BY <2>1, <2>2, <2>3 DEF PageType
<1> QED
  BY <1>1, <1>2, <1>3, <1>4 DEF Types

LEMMA SnapshotType ==
  ASSUME ApiType, held # 0
  PROVE  Snapshot \in Displays
<1>1. held \in Runs /\ (held \in ended) \in BOOLEAN
  BY Bounds DEF ApiType, Runs
<1>2. Kept \in SUBSET (Nat \ {0})
  BY DEF ApiType, Kept
<1> QED
  BY <1>1, <1>2 DEF Snapshot, Shows, Displays

LEMMA SnapshotInMessages ==
  ASSUME ApiType, held # 0
  PROVE  SnapshotMessage \in Messages
BY SnapshotType DEF SnapshotMessage, Messages

LEMMA PollTelemetry ==
  ASSUME ApiType, NEW chained
  PROVE  Poll(chained).answer.telemetry
           = IF held # 0 THEN Snapshot ELSE NoDisplay
BY DEF Poll, Answer

LEMMA PollTyped ==
  ASSUME ApiType, NEW chained
  PROVE  Poll(chained).answer.telemetry \in Displays
BY PollTelemetry, SnapshotType DEF Displays

\* Dropping what does not fit leaves messages; if nothing was dropped, the new
\* ones follow the old.
LEMMA SendKeeps ==
  ASSUME WireType, NEW messages \in Seq(Messages), Send(messages)
  PROVE  /\ WireType'
         /\ Subscribed /\ ~lossy' => ~lossy /\ queue' = queue \o messages
         /\ ~Subscribed => UNCHANGED wire
<1> DEFINE whole == queue \o messages
           size  == IF Len(queue) + Len(messages) < QueueSize
                    THEN Len(queue) + Len(messages) ELSE QueueSize
<1>1. CASE ~Subscribed
  BY <1>1 DEF Send, WireType, wire
<1>2. CASE Subscribed
  <2>1. /\ queue' = SubSeq(whole, 1, size)
        /\ lossy' = (lossy \/ Len(queue) + Len(messages) > QueueSize)
    BY <1>2 DEF Send
  <2>2. /\ whole \in Seq(Messages) /\ Len(whole) = Len(queue) + Len(messages)
        /\ Len(queue) \in Nat /\ Len(messages) \in Nat
    BY ConcatProperties, LenProperties DEF WireType
  <2>3. size \in Nat /\ size <= QueueSize /\ size <= Len(whole)
    BY <2>2, Bounds
  <2>4. \A i \in 1..size : whole[i] \in Messages
    <3>1. \A i \in 1..Len(whole) : whole[i] \in Messages
      BY <2>2, LenProperties
    <3> QED
      BY <3>1, <2>2, <2>3
  <2>5. /\ SubSeq(whole, 1, size) \in Seq(Messages)
        /\ Len(SubSeq(whole, 1, size)) = size
    <3> HIDE DEF whole, size
    <3> QED
      BY <2>3, <2>4, SubSeqProperties
  <2>6. WireType'
    BY <2>1, <2>3, <2>5 DEF WireType
  <2>7. ~lossy' => ~lossy /\ queue' = whole
    <3> SUFFICES ASSUME ~lossy' PROVE ~lossy /\ queue' = whole
      OBVIOUS
    <3>1. ~lossy /\ ~ (Len(queue) + Len(messages) > QueueSize)
      <4> HIDE DEF whole, size
      <4> QED
        BY <2>1
    <3>2. size = Len(whole)
      BY <2>2, <3>1, Bounds
    <3> HIDE DEF whole, size
    <3> QED
      BY <2>1, <2>2, <3>1, <3>2, SubSeqFull
  <2> QED
    BY <1>2, <2>6, <2>7
<1> QED
  BY <1>1, <1>2

LEMMA MessagesTyped ==
  /\ \A over \in BOOLEAN : <<UpdateMessage(over)>> \in Seq(Messages)
  /\ \A s \in Nat \ {0} : /\ <<MilestoneMessage(s)>> \in Seq(Messages)
                    /\ \A over \in BOOLEAN :
                         <<MilestoneMessage(s), UpdateMessage(over)>>
                           \in Seq(Messages)
<1>1. /\ \A over \in BOOLEAN : UpdateMessage(over) \in Messages
      /\ \A s \in Nat \ {0} : MilestoneMessage(s) \in Messages
  BY DEF UpdateMessage, MilestoneMessage, Messages
<1> QED
  BY <1>1

LEMMA EmptyQueueTyped ==
  ASSUME WireType, queue' = <<>>, lossy' \in BOOLEAN
  PROVE  WireType'
BY Bounds DEF WireType

LEMMA TailTyped ==
  ASSUME WireType, queue # <<>>, lossy' = lossy, queue' \in {<<>>, Tail(queue)}
  PROVE  WireType'
<1>1. CASE queue' = <<>>
  BY <1>1, EmptyQueueTyped DEF WireType
<1>2. CASE queue' = Tail(queue)
  <2>1. /\ Tail(queue) \in Seq(Messages) /\ Len(Tail(queue)) = Len(queue) - 1
        /\ Len(queue) \in Nat
    BY HeadTailProperties, LenProperties DEF WireType
  <2> QED
    BY <1>2, <2>1, Bounds DEF WireType
<1> QED
  BY <1>1, <1>2

\* A poll is only sent while there is room for it.
LEMMA AddPollKeeps ==
  ASSUME PollType, NEW p, p.answer.telemetry \in Displays,
         \/ polls' = polls
         \/ Cardinality(polls) < MaxPolls /\ polls' = polls \cup {p}
  PROVE  PollType'
<1>1. CASE polls' = polls
  BY <1>1 DEF PollType
<1>2. CASE Cardinality(polls) < MaxPolls /\ polls' = polls \cup {p}
  <2> IsFiniteSet(polls)
    BY DEF PollType
  <2>0. Cardinality(polls) \in Nat
    BY FS_CardinalityType
  <2>3. /\ IsFiniteSet(polls \cup {p})
        /\ Cardinality(polls \cup {p})
             = IF p \in polls THEN Cardinality(polls) ELSE Cardinality(polls) + 1
    BY FS_AddElement
  <2>1. /\ IsFiniteSet(polls')
        /\ Cardinality(polls') <= Cardinality(polls) + 1
    BY <1>2, <2>0, <2>3
  <2>2. Cardinality(polls') \in Nat
    BY <2>1, FS_CardinalityType
  <2> QED
    BY <1>2, <2>0, <2>1, <2>2, Bounds DEF PollType
<1> QED
  BY <1>1, <1>2

LEMMA DropPollKeeps ==
  ASSUME PollType, NEW p \in polls, polls' = polls \ {p}
  PROVE  PollType'
<1>1. IsFiniteSet(polls') /\ Cardinality(polls') = Cardinality(polls) - 1
  BY FS_RemoveElement DEF PollType
<1>2. Cardinality(polls) \in Nat
  BY FS_CardinalityType DEF PollType
<1> QED
  BY <1>1, <1>2, Bounds DEF PollType

LEMMA EnterTerminalTyped ==
  ASSUME LinkType, NEW over, EnterTerminal(over)
  PROVE  LinkType'
BY DEF EnterTerminal, LinkType, Timers, link3

LEMMA RearmTyped ==
  ASSUME LinkType
  PROVE  Rearmed \subseteq Timers
BY DEF Rearmed, LinkType, Timers

LEMMA FollowTyped ==
  ASSUME PageType, WireType, NEW run, Follow(run), run \in 1..latest',
         lossy' = lossy
  PROVE  PageType' /\ WireType'
<1>b. terminal' \in BOOLEAN /\ quiet' \in BOOLEAN
  BY Zenon DEF Follow
<1>0. /\ link' = "connecting" /\ socket' = "connecting" /\ retries' = 0
      /\ timers' = timers \cap {"orphan"} /\ timers \subseteq Timers
  BY DEF Follow, PageType, LinkType
<1>1. LinkType'
  BY <1>b, <1>0, Bounds DEF LinkType, Timers
<1>2. WireType'
  BY EmptyQueueTyped DEF Follow, WireType
<1> QED
  BY <1>1, <1>2, <1>b, EmptyTyped DEF Follow, PageType, Idle

LEMMA LetGoTyped ==
  ASSUME PageType, WireType, LetGo, ApiType, latest' = latest, lossy' = lossy
  PROVE  PageType' /\ WireType'
<1>1. LinkType'
  BY DEF LetGo, PageType, LinkType
<1>2. WireType'
  BY EmptyQueueTyped DEF LetGo, WireType
<1>3. 0 \in 0..latest'
  BY Bounds DEF ApiType
<1> QED
  BY <1>1, <1>2, <1>3, EmptyTyped DEF LetGo, PageType, Idle

LEMMA ApiNext ==
  ASSUME ApiType, [Next]_vars
  PROVE  ApiType'
<1>1. CASE Milestone
  BY <1>1 DEF Milestone, ApiType
<1>2. CASE SetTerminal
  BY <1>2, Bounds DEF SetTerminal, Running, ApiType
<1>3. CASE Restart
  BY <1>3, Bounds DEF Restart, ApiType
<1>7. CASE SetTerminalAgain
  BY <1>7 DEF SetTerminalAgain, ApiType
<1>4. CASE StartRun
  BY <1>4, Bounds DEF StartRun, ApiType
<1>5. CASE UNCHANGED api
  BY <1>5 DEF api, ApiType
<1>6. CASE /\ Next /\ ~Milestone /\ ~SetTerminal /\ ~SetTerminalAgain
           /\ ~Restart /\ ~StartRun
  <2>1. UNCHANGED api
    BY <1>6 DEF Next, Update, PollArrives, PollFails, PollFires, Open, Break,
       ReconnectFires, UpgradeFires, Deliver, Reload, Release, Elapse, Check,
       CheckArrives, CheckFails
  <2> QED
    BY <2>1, <1>5
<1> QED
  BY <1>1, <1>2, <1>3, <1>4, <1>5, <1>6, <1>7 DEF vars

LEMMA WireNext ==
  ASSUME Types, [Next]_vars
  PROVE  WireType'
<1> ApiType /\ WireType /\ PageType
  BY DEF Types
<1>0. lossy \in BOOLEAN
  BY DEF WireType
<1>1. CASE Update
  BY <1>1, SendKeeps, MessagesTyped DEF Update
<1>2. CASE Milestone
  <2>1. sequence + 1 \in Nat \ {0}
    BY DEF ApiType
  <2> QED
    BY <1>2, <2>1, SendKeeps, MessagesTyped DEF Milestone
<1>3. CASE SetTerminal \/ SetTerminalAgain
  <2>1. sequence + 1 \in Nat \ {0}
    BY DEF ApiType
  <2> QED
    BY <1>3, <2>1, SendKeeps, MessagesTyped DEF SetTerminal, SetTerminalAgain
<1>4. CASE UNCHANGED wire
  BY <1>4 DEF wire, WireType
<1>5. CASE PollArrives
  <2>1. lossy' \in BOOLEAN
    BY <1>0, <1>5, Zenon DEF PollArrives
  <2>2. queue' = <<>> \/ queue' = queue
    BY <1>5 DEF PollArrives
  <2> QED
    BY <2>1, <2>2, EmptyQueueTyped DEF WireType
<1>6. CASE Open
  <2>1. lossy' \in BOOLEAN
    BY <1>6, Zenon DEF Open
  <2>2. CASE held = watched
    <3>1. socket = "connecting" /\ queue' = <<SnapshotMessage>>
      BY <1>6, <2>2 DEF Open
    <3>2. SnapshotMessage \in Messages
      BY <2>2, <3>1, SnapshotInMessages DEF PageType, Idle
    <3>3. <<SnapshotMessage>> \in Seq(Messages) /\ Len(<<SnapshotMessage>>) = 1
      BY <3>2
    <3> QED
      BY <2>1, <3>1, <3>3, Bounds DEF WireType
  <2>3. CASE held # watched
    BY <1>6, <2>1, <2>3, EmptyQueueTyped DEF Open
  <2> QED
    BY <2>2, <2>3
<1>7. CASE Break \/ Reload
  BY <1>0, <1>7, EmptyQueueTyped DEF Break, Reload
<1>8. CASE Deliver
  BY <1>8, TailTyped DEF Deliver
<1>9. CASE StartRun \/ Release \/ CheckArrives
  <2>1. lossy' = lossy /\ (queue' = <<>> \/ queue' = queue)
    BY <1>9 DEF StartRun, Release, CheckArrives, Follow, LetGo
  <2> QED
    BY <1>0, <2>1, EmptyQueueTyped DEF WireType
<1>10. CASE \/ Restart \/ PollFails \/ PollFires \/ ReconnectFires
            \/ UpgradeFires \/ Elapse \/ Check \/ CheckFails \/ UNCHANGED vars
  <2>1. UNCHANGED wire
    BY <1>10 DEF Restart, PollFails, PollFires, ReconnectFires, UpgradeFires,
       Elapse, Check, CheckFails, vars, wire
  <2> QED
    BY <2>1, <1>4
<1> QED
  BY <1>1, <1>2, <1>3, <1>5, <1>6, <1>7, <1>8, <1>9, <1>10 DEF Next

LEMMA PollNext ==
  ASSUME Types, [Next]_vars
  PROVE  PollType'
<1> ApiType /\ PollType
  BY DEF Types
<1>1. CASE UNCHANGED polls
  BY <1>1 DEF PollType
<1>2. CASE PollArrives \/ PollFails
  <2>1. PICK p \in polls : polls' = polls \ {p}
    BY <1>2 DEF PollArrives, PollFails
  <2> QED
    BY <2>1, DropPollKeeps
<1>3. CASE PollFires
  <2>1. \/ polls' = polls
        \/ Cardinality(polls) < MaxPolls /\ polls' = polls \cup {Poll(TRUE)}
    BY <1>3 DEF PollFires
  <2> QED
    BY <2>1, PollTyped, AddPollKeeps
<1>4. CASE Break
  <2>1. \/ polls' = polls
        \/ Cardinality(polls) < MaxPolls /\ polls' = polls \cup {Poll(FALSE)}
    BY <1>4 DEF Break, PollOnce
  <2> QED
    BY <2>1, PollTyped, AddPollKeeps
<1>5. CASE StartRun
  <2> DEFINE first == [chained |-> FALSE,
                       answer |-> [telemetry |-> Shows(latest + 1, FALSE, {1}),
                                   over |-> FALSE]]
  <2>1. \/ polls' = polls
        \/ Cardinality(polls) < MaxPolls /\ polls' = polls \cup {first}
    BY <1>5 DEF StartRun
  <2>2. latest + 1 \in Runs
    BY <1>5, Bounds DEF StartRun, ApiType, Runs
  <2>3. Shows(latest + 1, FALSE, {1}) \in Displays
    BY <2>2 DEF Shows, Displays
  <2>4. first.answer.telemetry \in Displays
    BY <2>3
  <2> QED
    BY <2>1, <2>4, AddPollKeeps
<1>6. CASE Reload
  <2>1. polls' = {} \/ polls' = {Poll(FALSE)}
    BY <1>6 DEF Reload
  <2>2. IsFiniteSet(polls') /\ Cardinality(polls') <= MaxPolls
    <3>1. CASE polls' = {}
      BY <3>1, Bounds, FS_EmptySet
    <3>2. CASE polls' = {Poll(FALSE)}
      <4>1. IsFiniteSet(polls') /\ Cardinality(polls') = 1
        BY <3>2, FS_Singleton
      <4> QED
        BY <4>1, Bounds
    <3> QED
      BY <2>1, <3>1, <3>2
  <2>3. \A p \in polls' : p.answer.telemetry \in Displays
    BY <2>1, PollTyped
  <2>4. Displays' = Displays
    BY DEF Displays
  <2> QED
    BY <2>2, <2>3, <2>4 DEF PollType
<1>7. CASE UNCHANGED vars \/ (Next /\ ~PollArrives /\ ~PollFails /\ ~PollFires
                                /\ ~Break /\ ~StartRun /\ ~Reload)
  <2>1. UNCHANGED polls
    BY <1>7 DEF Next, Update, Milestone, SetTerminal, SetTerminalAgain, Restart, Open,
       ReconnectFires, UpgradeFires, Deliver, Release, Elapse, Check,
       CheckArrives, CheckFails, vars
  <2> QED
    BY <2>1, <1>1
<1> QED
  BY <1>2, <1>3, <1>4, <1>5, <1>6, <1>7

LEMMA PageNext ==
  ASSUME Types, [Next]_vars
  PROVE  PageType'
<1> ApiType /\ WireType /\ PollType /\ PageType /\ LinkType
  BY DEF Types, PageType
<1>t. latest \in Nat /\ watched \in 0..latest
  BY Bounds DEF ApiType, PageType
<1>b. terminal \in BOOLEAN /\ quiet \in BOOLEAN
  BY DEF LinkType, PageType
<1>1. CASE /\ UNCHANGED <<watched, display, link3>>
           /\ quiet' \in BOOLEAN /\ latest' = latest
  BY <1>1 DEF PageType, LinkType, Idle, link3
<1>2. CASE PollArrives
  <2>1. PICK p \in polls :
          /\ \/ display' \in {display, p.answer.telemetry, NoDisplay}
             \/ /\ display # NoDisplay
                /\ display' = [display EXCEPT !.over = TRUE]
          /\ IF p.answer.over
             THEN EnterTerminal(TRUE)
             ELSE /\ timers' = IF p.chained /\ ~terminal /\ link = "polling"
                               THEN Rearmed ELSE timers
                  /\ UNCHANGED <<link, terminal, socket, retries>>
    BY <1>2 DEF PollArrives
  <2>2. display' \in Displays
    BY <2>1, EmptyTyped DEF PollType, PageType, Displays
  <2>3. quiet' \in BOOLEAN
    BY <1>2, <1>b, Zenon DEF PollArrives
  <2>4. LinkType' /\ Idle'
    <3>1. CASE p.answer.over
      BY <1>2, <2>1, <3>1, EnterTerminalTyped
         DEF PollArrives, EnterTerminal, Idle, PageType, link3
    <3>2. CASE ~p.answer.over
      BY <1>2, <2>1, <3>2, RearmTyped DEF PollArrives, LinkType, Idle, PageType
    <3> QED
      BY <3>1, <3>2
  <2>5. watched' = watched /\ latest' = latest
    BY <1>2 DEF PollArrives, api
  <2> QED
    BY <1>t, <2>2, <2>3, <2>4, <2>5 DEF PageType
<1>3. CASE PollFails \/ PollFires
  <2>1. UNCHANGED <<watched, display, link, terminal, socket, retries, quiet,
                    latest>>
    BY <1>3 DEF PollFails, PollFires, api, safety
  <2>2. timers' \subseteq timers \/ (link = "polling" /\ timers' = Rearmed)
    BY <1>3 DEF PollFails, PollFires
  <2> QED
    BY <2>1, <2>2, RearmTyped DEF PageType, LinkType, Idle
<1>4. CASE Open
  <2>1. /\ UNCHANGED <<watched, display, terminal, quiet, latest>>
        /\ socket = "connecting" /\ socket' = "open" /\ link' = "live"
        /\ retries' = 0 /\ timers' \subseteq timers
    BY <1>4 DEF Open, api, safety
  <2> QED
    BY <2>1, Bounds DEF PageType, LinkType, Idle
<1>5. CASE Break
  <2>1. /\ socket' = "none"
        /\ UNCHANGED <<watched, display, terminal, quiet, latest>>
    BY <1>5 DEF Break, api, safety
  <2>2. watched # 0
    BY <1>5 DEF Break, PageType, Idle
  <2>3. /\ timers' \subseteq Timers /\ retries' \in 0..MaxReconnects
        /\ link' \in {link, "reconnecting", "polling"}
    <3>1. timers \subseteq Timers /\ Rearmed \subseteq Timers
      BY RearmTyped DEF LinkType
    <3>2. CASE UNCHANGED <<link, retries, timers>>
      BY <3>1, <3>2 DEF LinkType
    <3>3. CASE /\ retries < MaxReconnects /\ retries' = retries + 1
               /\ link' = "reconnecting" /\ timers' = timers \cup {"reconnect"}
      BY <3>1, <3>3, Bounds DEF LinkType, Timers
    <3>4. CASE /\ link' = "polling" /\ timers' = Rearmed \cup {"upgrade"}
               /\ UNCHANGED retries
      BY <3>1, <3>4 DEF LinkType, Timers
    <3> QED
      BY <1>5, <3>2, <3>3, <3>4 DEF Break
  <2> QED
    BY <2>1, <2>2, <2>3 DEF PageType, LinkType, Idle
<1>6. CASE ReconnectFires \/ UpgradeFires
  <2>1. UNCHANGED <<watched, display, terminal, quiet, latest>>
    BY <1>6 DEF ReconnectFires, UpgradeFires, api, safety
  <2>2. /\ socket' = "connecting" /\ timers' \subseteq timers
        /\ retries' \in {0, retries}
        /\ link' \in {link, "polling", "reconnecting", "connecting"}
        /\ watched # 0
    BY <1>6 DEF ReconnectFires, UpgradeFires, Connect, PageType, Idle
  <2> QED
    BY <2>1, <2>2, Bounds DEF PageType, LinkType, Idle
<1>7. CASE Deliver
  <2> DEFINE m == Head(queue)
  <2>1. m \in Messages
    BY <1>7, HeadTailProperties DEF Deliver, WireType
  <2>2. watched # 0 /\ watched \in Runs
    BY <1>7, <1>t, Bounds DEF Deliver, PageType, Idle, Runs, ApiType
  <2>3. UNCHANGED <<watched, latest>> /\ Handle(m)
    BY <1>7 DEF Deliver, api
  <2>4. quiet' \in BOOLEAN
    BY <1>b, <2>3, Zenon DEF Handle
  <2>5. display' \in Displays
    <3>1. CASE m.type = "snapshot"
      <4>1. m.data \in Displays /\ display' = m.data
        BY <2>1, <2>3, <3>1 DEF Messages, Handle
      <4> QED
        BY <4>1
    <3>2. CASE m.type = "update"
      <4>1. /\ m.over \in BOOLEAN
            /\ display' = IF display = NoDisplay THEN Shows(watched, m.over, {})
                          ELSE [display EXCEPT !.run = watched, !.over = m.over]
        BY <2>1, <2>3, <3>2 DEF Messages, Handle
      <4> QED
        BY <2>2, <4>1 DEF Displays, Shows, PageType
    <3>3. CASE m.type = "milestone"
      <4>1. /\ m.sequence \in Nat \ {0}
            /\ display' = IF display # NoDisplay
                             /\ \A s \in display.feed : s < m.sequence
                          THEN [display EXCEPT !.feed = @ \cup {m.sequence}]
                          ELSE display
        BY <2>1, <2>3, <3>3 DEF Messages, Handle
      <4> QED
        BY <4>1 DEF Displays, PageType
    <3> QED
      BY <2>3, <3>1, <3>2, <3>3 DEF Handle
  <2>6. LinkType' /\ (socket' # "none" => UNCHANGED link3)
    <3>1. EnterTerminal(m.data.over) \/ EnterTerminal(m.over) \/ UNCHANGED link3
      BY <2>3 DEF Handle
    <3>2. CASE EnterTerminal(m.data.over)
      BY <3>2, EnterTerminalTyped DEF EnterTerminal
    <3>3. CASE EnterTerminal(m.over)
      BY <3>3, EnterTerminalTyped DEF EnterTerminal
    <3>4. CASE UNCHANGED link3
      BY <3>4 DEF link3, LinkType
    <3> QED
      BY <3>1, <3>2, <3>3, <3>4
  <2>7. Idle'
    BY <2>2, <2>3 DEF Idle
  <2> QED
    BY <1>t, <2>3, <2>4, <2>5, <2>6, <2>7 DEF PageType
<1>8. CASE StartRun
  <2>0. latest' = latest + 1
    BY <1>8 DEF StartRun
  <2>1. CASE Follow(latest + 1)
    BY <1>8, <1>t, <2>0, <2>1, FollowTyped DEF StartRun
  <2>2. CASE UNCHANGED <<watched, display, link3, quiet>>
    BY <1>t, <2>0, <2>2 DEF PageType, LinkType, Idle, link3
  <2> QED
    BY <1>8, <2>1, <2>2 DEF StartRun
<1>9. CASE Reload
  <2>1. /\ display' = NoDisplay /\ retries' = 0 /\ timers' = {}
        /\ latest' = latest
    BY <1>9 DEF Reload, api
  <2>2. terminal' \in BOOLEAN /\ quiet' \in BOOLEAN
    BY <1>9, Zenon DEF Reload
  <2>3. \/ /\ watched' = latest /\ socket' = "connecting" /\ link' = "connecting"
           /\ latest # 0
        \/ watched' = 0 /\ socket' = "none" /\ link' = "idle"
    BY <1>9 DEF Reload, Running, ApiType
  <2> QED
    BY <1>t, <2>1, <2>2, <2>3, Bounds, EmptyTyped DEF PageType, LinkType, Idle
<1>10. CASE Release \/ CheckArrives
  <2>1. lossy' = lossy /\ latest' = latest
    BY <1>10 DEF Release, CheckArrives, api
  <2>2. LetGo \/ UNCHANGED <<watched, display, link3, quiet>>
    BY <1>10 DEF Release, CheckArrives
  <2> QED
    BY <1>1, <1>b, <2>1, <2>2, LetGoTyped
<1>11. CASE \/ Update \/ Milestone \/ SetTerminal \/ SetTerminalAgain
            \/ Restart \/ Elapse \/ Check \/ CheckFails \/ UNCHANGED vars
  <2>1. UNCHANGED <<watched, display, link3>> /\ latest' = latest
    BY <1>11 DEF Update, Milestone, SetTerminal, SetTerminalAgain, Restart, Elapse,
       Check, CheckFails, vars, api
  <2>2. quiet' \in BOOLEAN
    BY <1>b, <1>11, Zenon DEF Update, Milestone, SetTerminal, SetTerminalAgain,
       Restart, Elapse, Check, CheckFails, vars, safety
  <2> QED
    BY <1>1, <2>1, <2>2
<1> QED
  BY <1>2, <1>3, <1>4, <1>5, <1>6, <1>7, <1>8, <1>9, <1>10, <1>11 DEF Next

LEMMA TypesInvariant == Spec => []Types
<1>1. Init => Types
  BY TypesInit
<1>2. Types /\ [Next]_vars => Types'
  <2> SUFFICES ASSUME Types, [Next]_vars PROVE Types'
    OBVIOUS
  <2>1. ApiType'
    BY ApiNext DEF Types
  <2> QED
    BY <2>1, WireNext, PollNext, PageNext DEF Types
<1> QED
  BY <1>1, <1>2, PTL DEF Spec

\* For any bounds, every variable has its type; in particular the queue and the
\* polls in flight keep to their limits.
THEOREM DashboardTypeCorrect == Spec => []TypeOK
<1>1. Types => TypeOK
  BY DEF Types, ApiType, WireType, PollType, PageType, LinkType, TypeOK, Timers
<1> QED
  BY <1>1, TypesInvariant, PTL

-----------------------------------------------------------------------------
(* Nothing is missed *)

\* The subscription of the page is open and unbroken.
Live == socket = "open" /\ held = watched /\ held # 0 /\ ~lossy

Replaying == queue # <<>> /\ queue[1].type = "snapshot"

\* What the page shows, or will show once it has received the replay.
Base == IF Replaying THEN queue[1].data.feed ELSE Shown

\* Every milestone after the k-th waits in the queue.
Awaited(k) ==
  \A n \in (k + 1)..sequence :
    \E i \in 1..Len(queue) :
      queue[i].type = "milestone" /\ queue[i].sequence = n

QueueInOrder ==
  /\ \A i \in 1..Len(queue) :
       /\ queue[i].type = "snapshot" => i = 1 /\ queue[i].data.run = watched
       /\ queue[i].type = "milestone" => queue[i].sequence <= sequence
  /\ \A i, j \in 1..Len(queue) :
       i < j /\ queue[i].type = "milestone" /\ queue[j].type = "milestone" =>
         queue[i].sequence < queue[j].sequence

\* The milestones lo..k reach back as far as those that the API keeps.
ReachesBack(lo, k) ==
  /\ k \in 1..sequence /\ lo \in 1..k
  /\ lo = 1 \/ lo + MilestoneCap <= sequence + 1

\* The page is somewhat behind the server, and the queue holds the rest.
Behind ==
  /\ ~Replaying => display # NoDisplay /\ display.run = watched
  /\ \E lo, k \in Nat : Base = lo..k /\ ReachesBack(lo, k) /\ Awaited(k)

\* An answer about the present run tells of its milestones up to some point.
PollsTell ==
  \A p \in polls :
    /\ p.answer.telemetry.run <= latest
    /\ p.answer.telemetry.run = held /\ held # 0 =>
         \E lo, k \in Nat :
           p.answer.telemetry.feed = lo..k /\ ReachesBack(lo, k)

FeedInv ==
  /\ held = 0 <=> sequence = 0
  /\ PollsTell
  /\ Live => QueueInOrder /\ Behind

\* What is kept is the end of the milestones, and grows only there.
LEMMA KeptReaches ==
  ASSUME ApiType, sequence > 0
  PROVE  \E lo \in Nat : Kept = lo..sequence /\ ReachesBack(lo, sequence)
<1>1. sequence \in Nat /\ MilestoneCap \in Nat /\ MilestoneCap > 0
  BY Bounds DEF ApiType
<1>2. CASE sequence <= MilestoneCap
  <2>1. Kept = 1..sequence
    BY <1>1, <1>2 DEF Kept
  <2> QED
    BY <1>1, <2>1 DEF ReachesBack
<1>3. CASE sequence > MilestoneCap
  <2> DEFINE lo == sequence - MilestoneCap + 1
  <2>1. lo \in Nat /\ Kept = lo..sequence
    BY <1>1, <1>3 DEF Kept
  <2>2. ReachesBack(lo, sequence)
    BY <1>1, <1>3 DEF ReachesBack
  <2> QED
    BY <2>1, <2>2
<1> QED
  BY <1>1, <1>2, <1>3

LEMMA ReachesOn ==
  ASSUME sequence \in Nat, sequence' \in {sequence, sequence + 1},
         NEW lo \in Nat, NEW k \in Nat, ReachesBack(lo, k)
  PROVE  ReachesBack(lo, k)'
<1>1. sequence' \in Nat /\ sequence <= sequence'
  OBVIOUS
<1>2. k \in 1..sequence /\ lo \in 1..k
  BY DEF ReachesBack
<1>3. k \in 1..sequence'
  BY <1>1, <1>2
<1>4. CASE lo = 1
  BY <1>2, <1>3, <1>4 DEF ReachesBack
<1>5. CASE lo + MilestoneCap <= sequence + 1
  <2>1. lo + MilestoneCap \in Nat
    BY Bounds
  <2>2. lo + MilestoneCap <= sequence' + 1
    BY <1>1, <1>5, <2>1
  <2> QED
    BY <1>2, <1>3, <2>2 DEF ReachesBack
<1> QED
  BY <1>4, <1>5 DEF ReachesBack

feed == <<socket, held, watched, lossy, queue, display, sequence>>

LEMMA FeedInit == Init => FeedInv
BY DEF Init, FeedInv, PollsTell, Live

\* What the server adds comes last, and is the next milestone, if one at all.
LEMMA AppendKeeps ==
  ASSUME Types, QueueInOrder, Behind, UNCHANGED <<watched, display>>,
         NEW messages \in Seq(Messages), queue' = queue \o messages,
         messages # <<>>,
         \A i \in 2..Len(messages) : messages[i].type = "update",
         \/ sequence' = sequence /\ messages[1].type = "update"
         \/ /\ sequence' = sequence + 1
            /\ messages[1].type = "milestone" /\ messages[1].sequence = sequence'
  PROVE  QueueInOrder' /\ Behind'
<1> DEFINE n == Len(queue)
           l == Len(messages)
<1>1. /\ sequence \in Nat /\ n \in Nat /\ l \in Nat /\ l > 0
      /\ queue \in Seq(Messages)
  BY EmptySeq, LenProperties DEF Types, ApiType, WireType
<1>2. /\ Len(queue') = n + l
      /\ \A i \in 1..n : queue'[i] = queue[i]
      /\ \A i \in (n + 1)..(n + l) : queue'[i] = messages[i - n]
  BY <1>1, ConcatProperties
<1>3. queue = <<>> <=> n = 0
  BY <1>1, EmptySeq
<1>4. queue' # <<>>
  BY <1>1, <1>2, EmptySeq
<1> HIDE DEF n, l
<1>5. \A i \in (n + 1)..(n + l) :
        \/ queue'[i].type = "update"
        \/ /\ i = n + 1 /\ sequence' = sequence + 1
           /\ queue'[i].type = "milestone" /\ queue'[i].sequence = sequence'
  <2> TAKE i \in (n + 1)..(n + l)
  <2>1. i - n = 1 \/ i - n \in 2..l
    BY <1>1
  <2>2. i - n = 1 => i = n + 1
    BY <1>1
  <2> QED
    BY <1>2, <2>1, <2>2 DEF l
<1>6. \A i \in 1..(n + l) : i \in 1..n \/ i \in (n + 1)..(n + l)
  BY <1>1
<1>7. QueueInOrder'
  <2>1. \A i \in 1..(n + l) :
          /\ queue'[i].type = "snapshot" => i = 1 /\ queue'[i].data.run = watched'
          /\ queue'[i].type = "milestone" => queue'[i].sequence <= sequence'
    <3> TAKE i \in 1..(n + l)
    <3>1. CASE i \in 1..n
      <4>1. queue[i].type = "milestone" => queue[i].sequence \in Nat
        BY <1>1, <3>1, ElementOfSeq DEF Messages, n
      <4> QED
        BY <1>1, <1>2, <3>1, <4>1 DEF QueueInOrder, n
    <3>2. CASE i \in (n + 1)..(n + l)
      <4>1. \/ queue'[i].type = "update"
            \/ queue'[i].type = "milestone" /\ queue'[i].sequence = sequence + 1
        BY <1>5, <3>2
      <4>2. queue'[i].type = "milestone" => sequence' = sequence + 1
        BY <1>5, <3>2
      <4>3. queue'[i].type # "snapshot"
        BY <4>1
      <4>4. queue'[i].type = "milestone" => queue'[i].sequence <= sequence'
        <5> SUFFICES ASSUME queue'[i].type = "milestone"
                     PROVE  queue'[i].sequence <= sequence'
          OBVIOUS
        <5>1. queue'[i].sequence = sequence + 1 /\ sequence' = sequence + 1
          BY <4>1, <4>2
        <5> QED
          BY <1>1, <5>1
      <4> QED
        BY <4>3, <4>4
    <3> QED
      BY <1>6, <3>1, <3>2
  <2>2. \A i, j \in 1..(n + l) :
          i < j /\ queue'[i].type = "milestone" /\ queue'[j].type = "milestone" =>
            queue'[i].sequence < queue'[j].sequence
    <3> SUFFICES ASSUME NEW i \in 1..(n + l), NEW j \in 1..(n + l), i < j,
                        queue'[i].type = "milestone",
                        queue'[j].type = "milestone"
                 PROVE  queue'[i].sequence < queue'[j].sequence
      OBVIOUS
    <3>1. CASE j \in 1..n
      BY <1>1, <1>2, <3>1 DEF QueueInOrder, n
    <3>2. CASE j \in (n + 1)..(n + l)
      <4>1. /\ j = n + 1 /\ sequence' = sequence + 1
            /\ queue'[j].sequence = sequence'
        BY <1>5, <3>2
      <4>2. i \in 1..n
        BY <1>1, <4>1
      <4>3. queue[i].type = "milestone" /\ queue[i].sequence \in Nat
        BY <1>1, <1>2, <4>2, ElementOfSeq DEF Messages, n
      <4>4. queue[i].sequence <= sequence
        BY <4>2, <4>3 DEF QueueInOrder, n
      <4> QED
        BY <1>1, <1>2, <4>1, <4>2, <4>3, <4>4
    <3> QED
      BY <1>6, <3>1, <3>2
  <2> QED
    BY <1>2, <2>1, <2>2 DEF QueueInOrder
<1>8. Replaying' <=> Replaying
  <2>1. CASE n = 0
    BY <1>1, <1>3, <1>5, <2>1 DEF Replaying
  <2>2. CASE n > 0
    BY <1>1, <1>2, <1>3, <1>4, <2>2 DEF Replaying
  <2> QED
    BY <1>1, <2>1, <2>2
<1>9. Base' = Base
  <2>1. Replaying => queue'[1] = queue[1]
    BY <1>1, <1>2, <1>3 DEF Replaying
  <2> QED
    BY <1>8, <2>1 DEF Base, Shown
<1>10. \A k \in Nat : Awaited(k) => Awaited(k)'
  <2> SUFFICES ASSUME NEW k \in Nat, Awaited(k)
               PROVE  Awaited(k)'
    OBVIOUS
  <2> SUFFICES ASSUME NEW m \in (k + 1)..sequence'
               PROVE  \E i \in 1..Len(queue') :
                        queue'[i].type = "milestone" /\ queue'[i].sequence = m
    BY Zenon DEF Awaited
  <2>1. CASE m \in (k + 1)..sequence
    <3>1. PICK i \in 1..n : queue[i].type = "milestone" /\ queue[i].sequence = m
      BY <2>1 DEF Awaited, n
    <3>2. i \in 1..Len(queue')
      BY <1>1, <1>2
    <3> QED
      BY <1>2, <3>1, <3>2
  <2>2. CASE m \notin (k + 1)..sequence
    <3>1. m = sequence' /\ sequence' = sequence + 1
      BY <1>1, <2>2
    <3>2. messages[1].type = "milestone" /\ messages[1].sequence = sequence'
      BY <1>1, <3>1
    <3>3. n + 1 \in 1..Len(queue') /\ queue'[n + 1] = messages[1]
      BY <1>1, <1>2
    <3> QED
      BY <3>1, <3>2, <3>3
  <2> QED
    BY <2>1, <2>2
<1>11. \A lo, k \in Nat : ReachesBack(lo, k) => ReachesBack(lo, k)'
  BY <1>1, ReachesOn
<1> QED
  BY <1>7, <1>8, <1>9, <1>10, <1>11 DEF Behind

\* A poll about a run the server holds is formed from what it then knows.
LEMMA PollFormed ==
  ASSUME ApiType, held = 0 <=> sequence = 0, NEW chained
  PROVE  LET t == Poll(chained).answer.telemetry
         IN  /\ t.run <= latest
             /\ t.run = held /\ held # 0 => sequence > 0 /\ t.feed = Kept
<1>1. latest \in Nat /\ held \in {0, latest}
  BY Bounds DEF ApiType
<1>2. CASE held = 0
  <2>1. Poll(chained).answer.telemetry.run = 0
    BY <1>2, PollTelemetry DEF NoDisplay
  <2> QED
    BY <1>1, <1>2, <2>1
<1>3. CASE held # 0
  <2>1. /\ Poll(chained).answer.telemetry.run = held
        /\ Poll(chained).answer.telemetry.feed = Kept
    BY <1>3, PollTelemetry DEF Snapshot, Shows
  <2>2. sequence > 0
    BY <1>3 DEF ApiType
  <2> QED
    BY <1>1, <2>1, <2>2
<1> QED
  BY <1>2, <1>3

LEMMA TellsNext ==
  ASSUME Types, FeedInv, [Next]_vars
  PROVE  PollsTell' /\ (held' = 0 <=> sequence' = 0)
<1>1. /\ latest \in Nat /\ sequence \in Nat /\ held \in {0, latest}
      /\ ApiType /\ PollsTell /\ (held = 0 <=> sequence = 0)
  BY Bounds DEF Types, ApiType, FeedInv
<1>2. CASE UNCHANGED api /\ polls' \subseteq polls
  BY <1>1, <1>2 DEF PollsTell, ReachesBack, api
<1>3. CASE /\ UNCHANGED api
           /\ \E chained : polls' \subseteq polls \cup {Poll(chained)}
  <2>1. PICK chained : polls' \subseteq polls \cup {Poll(chained)}
    BY <1>3
  <2>2. UNCHANGED <<latest, held, sequence>>
    BY <1>3 DEF api
  <2>4. PollsTell'
    <3> SUFFICES ASSUME NEW p \in polls'
                 PROVE  /\ p.answer.telemetry.run <= latest
                        /\ p.answer.telemetry.run = held /\ held # 0 =>
                             \E lo, k \in Nat :
                               /\ p.answer.telemetry.feed = lo..k
                               /\ ReachesBack(lo, k)
      BY <2>2 DEF PollsTell, ReachesBack
    <3>1. CASE p \in polls
      BY <1>1, <3>1 DEF PollsTell
    <3>2. CASE p = Poll(chained)
      BY <1>1, <3>2, PollFormed, KeptReaches
    <3> QED
      BY <2>1, <3>1, <3>2
  <2> QED
    BY <1>1, <2>2, <2>4
<1>4. CASE Milestone \/ SetTerminal \/ SetTerminalAgain
  <2>1. /\ UNCHANGED <<latest, held, polls>> /\ held # 0
        /\ sequence' = sequence + 1
    BY <1>4 DEF Milestone, SetTerminal, SetTerminalAgain, Running
  <2>2. \A lo, k \in Nat : ReachesBack(lo, k) => ReachesBack(lo, k)'
    BY <1>1, <2>1, ReachesOn
  <2> QED
    BY <1>1, <2>1, <2>2 DEF PollsTell
<1>5. CASE Restart
  BY <1>1, <1>5 DEF Restart, PollsTell
<1>6. CASE StartRun
  <2>1. /\ latest' = latest + 1 /\ held' = latest + 1 /\ sequence' = 1
        /\ \A p \in polls' :
             \/ p \in polls
             \/ /\ p.answer.telemetry.run = latest + 1
                /\ p.answer.telemetry.feed = {1}
    BY <1>6 DEF StartRun, Shows
  <2>2. \A p \in polls' : p \in polls =>
          /\ p.answer.telemetry.run <= latest' /\ p.answer.telemetry.run # held'
    <3> SUFFICES ASSUME NEW p \in polls
                 PROVE  /\ p.answer.telemetry.run <= latest'
                        /\ p.answer.telemetry.run # held'
      OBVIOUS
    <3>1. p.answer.telemetry.run \in Nat
      BY DEF Types, PollType, Displays, NoDisplay, Runs
    <3>2. p.answer.telemetry.run <= latest
      BY <1>1 DEF PollsTell
    <3> QED
      BY <1>1, <2>1, <3>1, <3>2
  <2>3. {1} = 1..1 /\ ReachesBack(1, 1)'
    BY <2>1 DEF ReachesBack
  <2>4. latest + 1 <= latest' /\ held' # 0
    BY <1>1, <2>1
  <2>5. PollsTell'
    <3> SUFFICES ASSUME NEW p \in polls'
                 PROVE  /\ p.answer.telemetry.run <= latest'
                        /\ p.answer.telemetry.run = held' /\ held' # 0 =>
                             \E lo, k \in Nat :
                               /\ p.answer.telemetry.feed = lo..k
                               /\ ReachesBack(lo, k)'
      BY DEF PollsTell
    <3> QED
      BY <2>1, <2>2, <2>3, <2>4
  <2> QED
    BY <1>1, <2>1, <2>5
<1>7. CASE \/ Update \/ PollArrives \/ PollFails \/ PollFires \/ Open \/ Break
           \/ ReconnectFires \/ UpgradeFires \/ Deliver \/ Reload \/ Release
           \/ Elapse \/ Check \/ CheckArrives \/ CheckFails \/ UNCHANGED vars
  <2>1. UNCHANGED api
    BY <1>7 DEF Update, PollArrives, PollFails, PollFires, Open, Break,
       ReconnectFires, UpgradeFires, Deliver, Reload, Release, Elapse, Check,
       CheckArrives, CheckFails, vars
  <2>2. \/ polls' \subseteq polls
        \/ polls' \subseteq polls \cup {Poll(TRUE)}
        \/ polls' \subseteq polls \cup {Poll(FALSE)}
    BY <1>7 DEF Update, PollArrives, PollFails, PollFires, Open, Break, PollOnce,
       ReconnectFires, UpgradeFires, Deliver, Reload, Release, Elapse, Check,
       CheckArrives, CheckFails, vars
  <2> QED
    BY <2>1, <2>2, <1>2, <1>3
<1> QED
  BY <1>4, <1>5, <1>6, <1>7 DEF Next

LEMMA SameKeeps ==
  ASSUME FeedInv, UNCHANGED feed, Live'
  PROVE  QueueInOrder' /\ Behind'
BY DEF FeedInv, Live, QueueInOrder, Behind, Replaying, Base, Shown, Awaited,
   ReachesBack, feed

\* What was awaited behind the first message still is once that is delivered.
LEMMA AwaitedTail ==
  ASSUME WireType, queue # <<>>, queue' = Tail(queue), sequence' = sequence,
         sequence \in Nat, NEW k \in Nat, NEW j \in Nat, k <= j, Awaited(k),
         queue[1].type = "milestone" => queue[1].sequence \notin (j + 1)..sequence
  PROVE  Awaited(j)'
<1>1. /\ Len(queue) \in Nat /\ Len(queue') = Len(queue) - 1
      /\ \A i \in 1..Len(queue') : queue'[i] = queue[i + 1]
  BY HeadTailProperties, LenProperties DEF WireType
<1> SUFFICES ASSUME NEW m \in (j + 1)..sequence
             PROVE  \E i \in 1..Len(queue') :
                      queue'[i].type = "milestone" /\ queue'[i].sequence = m
  BY Zenon DEF Awaited
<1>2. m \in (k + 1)..sequence
  OBVIOUS
<1>3. PICK i \in 1..Len(queue) :
        queue[i].type = "milestone" /\ queue[i].sequence = m
  BY <1>2 DEF Awaited
<1>4. i # 1
  BY <1>3
<1>5. i - 1 \in 1..Len(queue') /\ (i - 1) + 1 = i
  BY <1>1, <1>4
<1> QED
  BY <1>1, <1>3, <1>5

\* Every delivery takes the page from a prefix to the same or the next.
LEMMA DeliverBehind ==
  ASSUME Types, FeedInv, Deliver, Live'
  PROVE  QueueInOrder' /\ Behind'
<1> DEFINE m == queue[1]
<1>1. /\ socket = "open" /\ queue # <<>> /\ Handle(Head(queue))
      /\ UNCHANGED <<held, sequence, lossy, watched>>
      /\ queue' = IF terminal' /\ ~terminal THEN <<>> ELSE Tail(queue)
  BY DEF Deliver, api
<1>2. Live /\ QueueInOrder /\ Behind
  BY <1>1 DEF Live, FeedInv
<1>3. /\ queue \in Seq(Messages) /\ sequence \in Nat /\ WireType
      /\ display \in Displays /\ held \in Runs /\ watched = held
  BY <1>2, Bounds DEF Types, WireType, ApiType, PageType, Live, Runs
<1>4. /\ Head(queue) = m /\ m \in Messages
      /\ Len(queue) \in Nat /\ Len(queue) > 0
  BY <1>1, <1>3, EmptySeq, LenProperties, ElementOfSeq
<1>5. queue' = Tail(queue)
  <2>1. socket' = "open"
    BY DEF Live
  <2>2. EnterTerminal(m.data.over) \/ EnterTerminal(m.over) \/ UNCHANGED link3
    BY <1>1, <1>4 DEF Handle
  <2>3. terminal' = terminal
    BY <2>1, <2>2 DEF EnterTerminal, link3
  <2> QED
    BY <1>1, <2>3
<1>6. /\ Len(queue') = Len(queue) - 1
      /\ \A i \in 1..Len(queue') : queue'[i] = queue[i + 1]
      /\ queue' \in Seq(Messages)
  BY <1>1, <1>3, <1>5, HeadTailProperties
<1>7. \A i \in 1..Len(queue') : i + 1 \in 1..Len(queue) /\ i + 1 # 1
  BY <1>4, <1>6
<1>8. QueueInOrder'
  <2>1. \A i \in 1..Len(queue') :
          /\ queue'[i].type # "snapshot"
          /\ queue'[i].type = "milestone" => queue'[i].sequence <= sequence'
    BY <1>1, <1>2, <1>6, <1>7 DEF QueueInOrder
  <2>2. \A i, j \in 1..Len(queue') :
          i < j /\ queue'[i].type = "milestone" /\ queue'[j].type = "milestone" =>
            queue'[i].sequence < queue'[j].sequence
    <3> SUFFICES ASSUME NEW i \in 1..Len(queue'), NEW j \in 1..Len(queue'), i < j,
                        queue'[i].type = "milestone",
                        queue'[j].type = "milestone"
                 PROVE  queue'[i].sequence < queue'[j].sequence
      OBVIOUS
    <3>1. i + 1 < j + 1
      OBVIOUS
    <3> QED
      BY <1>2, <1>6, <1>7, <3>1 DEF QueueInOrder
  <2> QED
    BY <2>1, <2>2 DEF QueueInOrder
<1>9. ~Replaying'
  <2>1. queue' # <<>> => 1 \in 1..Len(queue')
    BY <1>6, EmptySeq
  <2>2. \A i \in 1..Len(queue') : queue'[i].type # "snapshot"
    BY <1>2, <1>6, <1>7 DEF QueueInOrder
  <2> QED
    BY <2>1, <2>2 DEF Replaying
<1>10. PICK lo \in Nat, k \in Nat : Base = lo..k /\ ReachesBack(lo, k) /\ Awaited(k)
  BY <1>2 DEF Behind
<1>11. \A j \in Nat :
         /\ k <= j
         /\ m.type = "milestone" => m.sequence \notin (j + 1)..sequence
         => Awaited(j)'
  BY <1>1, <1>3, <1>5, <1>10, AwaitedTail
<1> DEFINE Reached(j) ==
             /\ display' # NoDisplay /\ display'.run = watched
             /\ display'.feed = lo..j
             /\ m.type = "milestone" => m.sequence \notin (j + 1)..sequence
<1>12. ASSUME NEW j \in k..sequence, Reached(j)
       PROVE  Behind'
  <2>0. j \in Nat /\ k <= j
    BY <1>3
  <2>1. Awaited(j)'
    BY <1>11, <1>12, <2>0
  <2>2. Base' = lo..j
    BY <1>1, <1>9, <1>12 DEF Base, Shown
  <2>3. ReachesBack(lo, j)'
    BY <1>1, <1>3, <1>10, <1>12, <2>0 DEF ReachesBack
  <2> QED
    BY <1>1, <1>9, <1>12, <2>1, <2>2, <2>3 DEF Behind
<1>13. k \in k..sequence /\ k \in Nat /\ lo \in Nat /\ lo > 0 /\ lo <= k
  BY <1>3, <1>10 DEF ReachesBack
<1>14. CASE m.type = "snapshot"
  <2>1. Replaying
    BY <1>1, <1>14 DEF Replaying
  <2>2. display' = m.data /\ m.data.feed = lo..k
    BY <1>1, <1>4, <1>10, <1>14, <2>1 DEF Handle, Base
  <2>3. m.data.run = watched
    BY <1>2, <1>4, <1>14 DEF QueueInOrder
  <2>4. display' # NoDisplay
    BY <1>3, <2>2, <2>3 DEF NoDisplay, Runs
  <2> QED
    <3>1. Reached(k)
      BY <1>14, <2>2, <2>3, <2>4
    <3> HIDE DEF Reached
    <3> QED
      BY <1>8, <1>12, <1>13, <3>1
<1>15. CASE m.type # "snapshot"
  <2>1. ~Replaying /\ display # NoDisplay /\ display.run = watched
    BY <1>2, <1>15 DEF Replaying, Behind
  <2>2. /\ display \in [run : Runs, over : BOOLEAN, feed : SUBSET (Nat \ {0})]
        /\ display.feed = lo..k
    BY <1>3, <1>10, <2>1 DEF Displays, Base, Shown
  <2>3. CASE m.type = "update"
    <3>1. display' = [display EXCEPT !.run = watched, !.over = m.over]
      BY <1>1, <1>4, <2>1, <2>3 DEF Handle
    <3>2. display'.run = watched /\ display'.feed = lo..k
      BY <2>2, <3>1
    <3>3. display' # NoDisplay
      BY <1>3, <3>2 DEF NoDisplay, Runs
    <3>4. Reached(k)
      BY <2>3, <3>2, <3>3
    <3> HIDE DEF Reached
    <3> QED
      BY <1>8, <1>12, <1>13, <3>4
  <2>4. CASE m.type = "milestone"
    <3>1. /\ m.sequence \in Nat \ {0} /\ m.sequence <= sequence
      BY <1>2, <1>4, <2>4 DEF Messages, QueueInOrder
    <3>2. display' = IF \A s \in display.feed : s < m.sequence
                     THEN [display EXCEPT !.feed = @ \cup {m.sequence}]
                     ELSE display
      BY <1>1, <1>4, <2>1, <2>4 DEF Handle
    <3>3. m.sequence <= k + 1
      <4> SUFFICES ASSUME m.sequence > k + 1 PROVE FALSE
        BY <1>13, <3>1
      <4>1. k + 1 \in (k + 1)..sequence
        BY <1>3, <1>13, <3>1
      <4>2. PICK i \in 1..Len(queue) :
              queue[i].type = "milestone" /\ queue[i].sequence = k + 1
        BY <1>10, <4>1 DEF Awaited
      <4>3. 1 < i /\ 1 \in 1..Len(queue)
        BY <1>4, <4>2, <1>13
      <4>4. m.sequence < k + 1
        BY <1>2, <2>4, <4>2, <4>3 DEF QueueInOrder
      <4> QED
        BY <3>1, <1>13, <4>4
    <3>4. CASE m.sequence = k + 1
      <4>1. \A s \in display.feed : s < m.sequence
        BY <1>13, <2>2, <3>4
      <4>2. /\ display'.run = watched
            /\ display'.feed = lo..k \cup {k + 1}
        BY <2>1, <2>2, <3>2, <3>4, <4>1
      <4>3. lo..k \cup {k + 1} = lo..(k + 1)
        BY <1>13
      <4>4. k + 1 \in k..sequence /\ m.sequence \notin ((k + 1) + 1)..sequence
        BY <1>3, <1>13, <3>1, <3>4
      <4>5. display' # NoDisplay
        BY <1>3, <4>2 DEF NoDisplay, Runs
      <4>6. Reached(k + 1)
        BY <4>2, <4>3, <4>4, <4>5
      <4> HIDE DEF Reached
      <4> QED
        BY <1>8, <1>12, <4>4, <4>6
    <3>5. CASE m.sequence <= k
      <4>1. k \in display.feed /\ ~(k < m.sequence)
        BY <1>13, <2>2, <3>1, <3>5
      <4>2. display' = display
        BY <3>2, <4>1
      <4>3. m.sequence \notin (k + 1)..sequence
        BY <1>3, <1>13, <3>1, <3>5
      <4>4. Reached(k)
        BY <2>1, <2>2, <4>2, <4>3
      <4> HIDE DEF Reached
      <4> QED
        BY <1>8, <1>12, <1>13, <4>4
    <3> QED
      BY <1>13, <3>1, <3>3, <3>4, <3>5
  <2> QED
    BY <1>4, <1>15, <2>3, <2>4 DEF Messages
<1> QED
  BY <1>14, <1>15

\* An answer that is accepted without loss shows no less than the page did.
LEMMA AnswerBehind ==
  ASSUME Types, FeedInv, PollArrives, Live'
  PROVE  QueueInOrder' /\ Behind'
<1>1. PICK p \in polls :
        /\ \/ /\ p.answer.telemetry # NoDisplay
              /\ display' = p.answer.telemetry
              /\ lossy' = (lossy \/ display'.run # watched
                                \/ \E s \in Shown : \A t \in display'.feed : t < s)
           \/ /\ display' = IF display = NoDisplay THEN NoDisplay
                            ELSE [display EXCEPT !.over = TRUE]
              /\ lossy' = lossy
           \/ display' = display /\ lossy' = lossy
        /\ IF p.answer.over
           THEN EnterTerminal(TRUE)
           ELSE UNCHANGED <<link, terminal, socket, retries>>
        /\ queue' = IF terminal' /\ ~terminal THEN <<>> ELSE queue
        /\ UNCHANGED <<held, sequence, watched>>
  BY DEF PollArrives, api
<1>2. terminal' = terminal /\ socket' = socket
  BY <1>1 DEF Live, EnterTerminal, link3
<1>3. queue' = queue
  BY <1>1, <1>2
<1>4. ~lossy
  BY <1>1, Zenon DEF Live
<1>5. QueueInOrder /\ Behind
  BY <1>1, <1>2, <1>4 DEF FeedInv, Live
<1>6. watched = held /\ held # 0
  BY <1>1 DEF Live
<1>7. QueueInOrder' /\ Replaying' = Replaying /\ \A k : Awaited(k)' = Awaited(k)
  BY <1>1, <1>3, <1>5 DEF QueueInOrder, Replaying, Awaited
<1>8. display \in Displays /\ sequence \in Nat
  BY DEF Types, PageType, ApiType
<1>9. PICK lo \in Nat, k \in Nat : Base = lo..k /\ ReachesBack(lo, k) /\ Awaited(k)
  BY <1>5 DEF Behind
<1>12. \A i, j : ReachesBack(i, j)' <=> ReachesBack(i, j)
  BY <1>1 DEF ReachesBack
<1>13. k \in 1..sequence /\ lo \in 1..k
  BY <1>9 DEF ReachesBack
<1>10. CASE Replaying
  <2>1. Base' = Base
    BY <1>3, <1>7, <1>10 DEF Base
  <2> QED
    BY <1>1, <1>7, <1>9, <1>10, <1>12, <2>1 DEF Behind
<1>11. CASE ~Replaying
  <2>1. display # NoDisplay /\ display.run = watched /\ display.feed = lo..k
    BY <1>5, <1>9, <1>11 DEF Behind, Base, Shown
  <2>2. ASSUME NEW i \in Nat, NEW j \in Nat, ReachesBack(i, j), k <= j,
               display' # NoDisplay, display'.run = watched, display'.feed = i..j
        PROVE  Behind'
    <3>1. Awaited(j)
      BY <1>8, <1>9, <2>2 DEF Awaited
    <3>2. Base' = i..j
      BY <1>1, <1>7, <1>11, <2>2 DEF Base, Shown
    <3> QED
      BY <1>1, <1>7, <1>12, <2>2, <3>1, <3>2 DEF Behind
  <2>3. k <= k
    BY <1>8, <1>13
  <2>4. CASE /\ display' = p.answer.telemetry /\ display' # NoDisplay
             /\ lossy' = (lossy \/ display'.run # watched
                               \/ \E s \in Shown : \A t \in display'.feed : t < s)
    <3>1. /\ display'.run = watched
          /\ \A s \in Shown : \E t \in display'.feed : ~(t < s)
      BY <2>4, Zenon DEF Live
    <3>2. PICK i \in Nat, j \in Nat : display'.feed = i..j /\ ReachesBack(i, j)
      BY <1>6, <2>4, <3>1 DEF FeedInv, PollsTell
    <3>3. k \in Shown
      BY <1>13, <2>1 DEF Shown
    <3>4. PICK t \in i..j : ~(t < k)
      BY <3>1, <3>2, <3>3
    <3>5. k <= j
      BY <1>13, <3>4
    <3> QED
      BY <1>7, <2>2, <2>4, <3>1, <3>2, <3>5
  <2>5. CASE display' = [display EXCEPT !.over = TRUE]
    <3>1. display \in [run : Runs, over : BOOLEAN, feed : SUBSET (Nat \ {0})]
      BY <1>8, <2>1 DEF Displays
    <3>2. display'.run = watched /\ display'.feed = lo..k
      BY <2>1, <2>5, <3>1
    <3>3. display' # NoDisplay
      BY <1>6, <3>2 DEF NoDisplay
    <3> QED
      BY <1>7, <1>9, <2>2, <2>3, <3>2, <3>3
  <2>6. CASE display' = display
    BY <1>7, <1>9, <2>1, <2>2, <2>3, <2>6
  <2> QED
    BY <1>1, <2>1, <2>4, <2>5, <2>6
<1> QED
  BY <1>10, <1>11

\* A subscription begins with everything the server keeps.
LEMMA OpenBehind ==
  ASSUME Types, FeedInv, Open, Live'
  PROVE  QueueInOrder' /\ Behind'
<1>1. /\ UNCHANGED <<held, sequence, watched>>
      /\ held = watched /\ held # 0 /\ queue' = <<SnapshotMessage>>
  BY DEF Open, Live, api
<1>2. /\ Len(queue') = 1 /\ queue' # <<>> /\ queue'[1].type = "snapshot"
      /\ queue'[1].data.run = watched /\ queue'[1].data.feed = Kept
  BY <1>1 DEF SnapshotMessage, Snapshot, Shows
<1>3. ApiType /\ sequence \in Nat /\ sequence > 0
  BY <1>1 DEF Types, ApiType, FeedInv
<1>4. QueueInOrder'
  BY <1>1, <1>2 DEF QueueInOrder
<1>5. Replaying' /\ Base' = Kept
  BY <1>2 DEF Replaying, Base
<1>6. PICK lo \in Nat : Kept = lo..sequence /\ ReachesBack(lo, sequence)
  BY <1>3, KeptReaches
<1>7. ReachesBack(lo, sequence)' /\ Awaited(sequence)'
  BY <1>1, <1>3, <1>6 DEF ReachesBack, Awaited
<1> QED
  <2>1. \E k \in Nat : Base' = lo..k /\ ReachesBack(lo, k)' /\ Awaited(k)'
    BY <1>1, <1>3, <1>5, <1>6, <1>7
  <2> QED
    BY <1>4, <1>5, <2>1 DEF Behind

\* What the server sends is an update, or the next milestone and updates.
IsNews(messages) ==
  /\ messages \in Seq(Messages) /\ messages # <<>>
  /\ \A i \in 2..Len(messages) : messages[i].type = "update"

LEMMA SentIsNews ==
  ASSUME NEW over \in BOOLEAN, NEW s \in Nat \ {0}
  PROVE  /\ IsNews(<<UpdateMessage(over)>>)
         /\ IsNews(<<MilestoneMessage(s)>>)
         /\ IsNews(<<MilestoneMessage(s), UpdateMessage(over)>>)
<1>1. UpdateMessage(over).type = "update"
  BY DEF UpdateMessage
<1>2. /\ <<UpdateMessage(over)>> \in Seq(Messages)
      /\ <<MilestoneMessage(s)>> \in Seq(Messages)
      /\ <<MilestoneMessage(s), UpdateMessage(over)>> \in Seq(Messages)
  BY MessagesTyped
<1>3. \A m : Len(<<m>>) = 1 /\ <<m>> # <<>>
  OBVIOUS
<1>4. /\ IsNews(<<UpdateMessage(over)>>)
      /\ IsNews(<<MilestoneMessage(s)>>)
  BY <1>2, <1>3 DEF IsNews
<1>5. IsNews(<<MilestoneMessage(s), UpdateMessage(over)>>)
  <2> DEFINE both == <<MilestoneMessage(s), UpdateMessage(over)>>
  <2>1. Len(both) = 2 /\ both # <<>> /\ both[2] = UpdateMessage(over)
    OBVIOUS
  <2>2. both \in Seq(Messages)
    BY <1>2
  <2> HIDE DEF both
  <2>3. IsNews(both)
    BY <1>1, <2>1, <2>2 DEF IsNews
  <2> QED
    BY <2>3 DEF both
<1> QED
  BY <1>4, <1>5

LEMMA LiveNext ==
  ASSUME Types, FeedInv, [Next]_vars, Live'
  PROVE  QueueInOrder' /\ Behind'
<1>0. /\ sequence \in Nat /\ held \in {0, latest} /\ latest \in Nat
      /\ watched \in 0..latest
  BY Bounds DEF Types, ApiType, PageType
<1>1. CASE Update \/ Milestone \/ SetTerminal \/ SetTerminalAgain
  <2>0. sequence + 1 \in Nat \ {0}
    BY <1>0
  <2>1. PICK messages :
          /\ Send(messages) /\ IsNews(messages)
          /\ \/ sequence' = sequence /\ messages[1].type = "update"
             \/ /\ sequence' = sequence + 1 /\ messages[1].type = "milestone"
                /\ messages[1].sequence = sequence'
    <3> DEFINE next == MilestoneMessage(sequence + 1)
    <3>1. CASE Update
      <4>1. Send(<<UpdateMessage(FALSE)>>) /\ sequence' = sequence
        BY <3>1 DEF Update, api
      <4>2. <<UpdateMessage(FALSE)>>[1].type = "update"
        BY DEF UpdateMessage
      <4> QED
        BY <2>0, <4>1, <4>2, SentIsNews
    <3>2. CASE Milestone \/ SetTerminal \/ SetTerminalAgain
      <4>1. /\ sequence' = sequence + 1
            /\ \/ Send(<<next>>)
               \/ Send(<<next, UpdateMessage(FALSE)>>)
               \/ Send(<<next, UpdateMessage(TRUE)>>)
        BY <3>2 DEF Milestone, SetTerminal, SetTerminalAgain
      <4>2. next.type = "milestone" /\ next.sequence = sequence'
        BY <4>1 DEF MilestoneMessage
      <4>3. /\ <<next>>[1] = next
            /\ \A over : <<next, UpdateMessage(over)>>[1] = next
        OBVIOUS
      <4>4. /\ IsNews(<<next>>)
            /\ IsNews(<<next, UpdateMessage(FALSE)>>)
            /\ IsNews(<<next, UpdateMessage(TRUE)>>)
        BY <2>0, SentIsNews
      <4> HIDE DEF next
      <4> QED
        BY <4>1, <4>2, <4>3, <4>4
    <3> QED
      BY <1>1, <3>1, <3>2
  <2>2. UNCHANGED <<socket, held, watched, display>>
    BY <1>1 DEF Update, Milestone, SetTerminal, SetTerminalAgain, api, link3
  <2>3. Subscribed
    BY <2>2 DEF Live, Subscribed
  <2>4. ~lossy /\ queue' = queue \o messages
    BY <2>1, <2>3, SendKeeps DEF Live, Types, IsNews
  <2>5. QueueInOrder /\ Behind
    BY <2>2, <2>4 DEF FeedInv, Live
  <2> QED
    BY <2>1, <2>2, <2>4, <2>5, AppendKeeps DEF IsNews
<1>2. CASE PollArrives
  BY <1>2, AnswerBehind
<1>3. CASE Open
  BY <1>3, OpenBehind
<1>4. CASE Deliver
  BY <1>4, DeliverBehind
<1>5. CASE \/ Restart \/ Break \/ ReconnectFires \/ UpgradeFires \/ Reload
           \/ Release
  BY <1>5 DEF Restart, Break, ReconnectFires, Connect, UpgradeFires, Reload,
     Release, LetGo, Live
<1>6. CASE StartRun
  <2>1. held' = latest + 1 /\ (Follow(latest + 1) \/ watched' = watched)
    BY <1>6 DEF StartRun
  <2> QED
    BY <1>0, <2>1 DEF Follow, Live
<1>7. CASE UNCHANGED feed
  BY <1>7, SameKeeps
<1>8. CASE PollFails \/ PollFires \/ Elapse \/ Check \/ CheckFails \/ UNCHANGED vars
  <2>1. UNCHANGED feed
    BY <1>8 DEF PollFails, PollFires, Elapse, Check, CheckFails, vars, feed, api,
       wire, link3
  <2> QED
    BY <2>1, <1>7
<1>9. CASE CheckArrives
  <2>1. LetGo \/ UNCHANGED feed
    BY <1>9 DEF CheckArrives, feed, api, link3
  <2> QED
    BY <2>1, <1>7 DEF LetGo, Live
<1> QED
  BY <1>1, <1>2, <1>3, <1>4, <1>5, <1>6, <1>8, <1>9 DEF Next

\* The page and its queue together hold the milestones of the run in order.
THEOREM FeedInvariant == Spec => []FeedInv
<1>1. Init => FeedInv
  BY FeedInit
<1>2. Types /\ FeedInv /\ [Next]_vars => FeedInv'
  BY TellsNext, LiveNext DEF FeedInv
<1> QED
  BY <1>1, <1>2, TypesInvariant, PTL DEF Spec

\* For any sizes of queues, numbers of runs and polls: a subscription that lost
\* no message has told the page of every milestone the API still keeps, or is going
\* to.
THEOREM NewsIsComplete == Spec => []NothingIsMissed
<1>1. Types /\ FeedInv => NothingIsMissed
  <2> SUFFICES ASSUME Types, FeedInv, socket = "open", held = watched, ~lossy
               PROVE  \/ Replay /\ \E i \in 1..Len(queue) :
                           /\ queue[i].type = "snapshot"
                           /\ Kept \subseteq queue[i].data.feed
                                      \cup {m.sequence : m \in Pending}
                      \/ Kept \subseteq Shown \cup {m.sequence : m \in Pending}
    BY DEF NothingIsMissed
  <2>1. CASE held = 0
    <3>1. sequence = 0
      BY <2>1 DEF FeedInv
    <3>2. Kept = {}
      BY <3>1 DEF Kept
    <3> QED
      BY <3>2
  <2>2. CASE held # 0
    <3>1. /\ sequence \in Nat /\ queue \in Seq(Messages) /\ Behind
      BY <2>2 DEF Types, ApiType, WireType, FeedInv, Live
    <3>2. ToSet(queue) = {queue[i] : i \in 1..Len(queue)}
      BY <3>1, LenProperties DEF ToSet
    <3>3. PICK lo \in Nat, k \in Nat :
            Base = lo..k /\ ReachesBack(lo, k) /\ Awaited(k)
      BY <3>1 DEF Behind
    <3>4. \A n \in (k + 1)..sequence : n \in {m.sequence : m \in Pending}
      BY <3>2, <3>3 DEF Awaited, Pending
    <3>8. \A n \in Kept : n \in lo..k \/ n \in (k + 1)..sequence
      BY <3>1, <3>3, Bounds DEF Kept, ReachesBack
    <3>5. Kept \subseteq Base \cup {m.sequence : m \in Pending}
      BY <3>3, <3>4, <3>8
    <3>6. CASE Replaying
      <4>1. 1 \in 1..Len(queue) /\ queue[1].type = "snapshot"
        BY <3>1, <3>6, EmptySeq, LenProperties DEF Replaying
      <4>2. Replay
        BY <3>2, <4>1 DEF Replay
      <4> QED
        BY <3>5, <3>6, <4>1, <4>2 DEF Base
    <3>7. CASE ~Replaying
      BY <3>5, <3>7 DEF Base
    <3> QED
      BY <3>6, <3>7
  <2> QED
    BY <2>1, <2>2
<1> QED
  BY <1>1, TypesInvariant, FeedInvariant, PTL
=============================================================================
