-------------------------- MODULE RoomSessionProofs --------------------------
(***************************************************************************)
(* Theorems about RoomSession, for every bound on episodes, calls, losses  *)
(* and attempts, and whether or not Disconnect runs beside the I/O thread, *)
(* but for the two theorems that assume it does not.                       *)
(***************************************************************************)
EXTENDS RoomSession, TLAPS

\* The join of a Connecting room is still running: its own catch block, and
\* nobody else, takes back what it installed.
ConnectingHasJoin ==
  state = "Connecting" => \E j \in joins : j.gen = gen

\* Retiring, the application thread, and the flag it raised go together.
RetiredIsFlagged == app # "idle" <=> retired

\* A terminal leave disables reconnection, and a full restart that is about to
\* join was not overtaken by one.
ServerLeftIsDisabled ==
  /\ "serverLeft" \in flags => disabled
  /\ \A i \in Episodes : episodes[i].pc = "rejoin" => "serverLeft" \notin flags

\* A user who left found no full restart about to join, unless by Retire, which
\* forbids the join; and reconnection stays disabled.
UserLeftIsDown ==
  "userLeft" \in flags =>
    /\ state = "Disconnected" /\ installed = 0 /\ ~active /\ disabled
    /\ retired \/ \A i \in Episodes : episodes[i].pc # "rejoin"

\* The inductive invariants.
OwnershipInv == TypeOK /\ SessionOwnership /\ ConnectingHasJoin
RetirementInv == TypeOK /\ RetiredIsFlagged /\ RetirementIsFinal
LeaveInv == TypeOK /\ ServerLeftIsDisabled
UserLeaveInv == RetirementInv /\ UserLeftIsDown

-----------------------------------------------------------------------------
(* Types *)

\* The records of the actions belong to their sets.
LEMMA EventRecords ==
  ASSUME NEW g \in Nat,
         NEW kind \in {"close", "leave", "reconnect", "attempt", "finalize"}
  PROVE  [kind |-> kind, gen |-> g] \in Event
BY DEF Event

LEMMA DeliveryRecords ==
  ASSUME NEW kind \in Kinds, NEW g \in Nat, NEW s \in States
  PROVE  [kind |-> kind, gen |-> g, state |-> s] \in Delivery
BY DEF Delivery

LEMMA JoinRecords ==
  ASSUME NEW g \in Nat, NEW by \in Nat
  PROVE  /\ [gen |-> g, by |-> by, pc |-> "signal"] \in Join
         /\ \A j \in Join : /\ j.gen \in Nat /\ j.by \in Nat
                            /\ [j EXCEPT !.pc = "media"] \in Join
                            /\ [j EXCEPT !.pc = "media"].gen = j.gen
BY DEF Join

LEMMA IdleRecord == Idle \in Episode
BY DEF Episode, Idle

LEMMA NewEpisodeRecord ==
  ASSUME NEW g \in Nat, NEW mode \in {"resume", "full"}
  PROVE  [pc |-> "delay", gen |-> g, rgen |-> 0, mode |-> mode, tries |-> 0] \in Episode
BY DEF Episode

LEMMA EpisodeFields ==
  ASSUME NEW e \in Episode
  PROVE  e.gen \in Nat /\ e.rgen \in Nat /\ e.tries \in Nat
BY DEF Episode

LEMMA EpisodeGoesTo ==
  ASSUME NEW e \in Episode,
         NEW pc \in {"ice", "joining", "joined", "joinFailed", "channel"}
  PROVE  [e EXCEPT !.pc = pc] \in Episode
BY DEF Episode

LEMMA EpisodeRestarts ==
  ASSUME NEW e \in Episode
  PROVE  [e EXCEPT !.pc = "restart", !.tries = @ + 1] \in Episode
<1>1. \A n \in Nat : [e EXCEPT !.pc = "restart", !.tries = n] \in Episode
  BY DEF Episode
<1>2. e.tries + 1 \in Nat
  BY EpisodeFields
<1>3. QED BY ONLY <1>1, <1>2

LEMMA EpisodeMoves ==
  ASSUME NEW e \in Episode, NEW g \in Nat, NEW r \in Nat, NEW n \in Nat
  PROVE  /\ [e EXCEPT !.pc = "delay", !.gen = g] \in Episode
         /\ [e EXCEPT !.pc = "republish", !.gen = g] \in Episode
         /\ [e EXCEPT !.pc = "rejoin", !.mode = "full", !.gen = g, !.rgen = r,
                      !.tries = n] \in Episode
BY DEF Episode

\* Writing an episode of the right type keeps the type of them all.
LEMMA SetType ==
  ASSUME episodes \in [Episodes -> Episode], NEW i, NEW r,
         i \in Episodes => r \in Episode, Set(i, r)
  PROVE  episodes' \in [Episodes -> Episode]
BY DEF Set

\* What one catch block, one join's return and one restart leave behind.
LEMMA CatchRestartType ==
  ASSUME TypeOK, RoomAssumption, NEW i \in Episodes, CatchRestart(i)
  PROVE  /\ episodes' \in [Episodes -> Episode]
         /\ state' \in States /\ flags' \subseteq Flags
<1>1. episodes[i] \in Episode /\ episodes \in [Episodes -> Episode]
  BY DEF TypeOK
<1>2. PICK r \in Episode : Set(i, r)
  <2> DEFINE Later(g) == [episodes[i] EXCEPT !.pc = "delay", !.gen = g]
  <2>1. /\ episodes[i].gen \in Nat /\ episodes[i].rgen \in Nat
        /\ episodes[i].rgen + 1 \in Nat
    <3>1. episodes[i].gen \in Nat /\ episodes[i].rgen \in Nat
      BY ONLY <1>1, EpisodeFields
    <3>2. QED BY <3>1
  <2>2. \A g \in Nat : Later(g) \in Episode
    BY ONLY <1>1, EpisodeMoves
  <2>3. \/ Set(i, Later(episodes[i].rgen)) \/ Set(i, Later(episodes[i].rgen + 1))
        \/ Set(i, Later(episodes[i].gen)) \/ Set(i, Idle)
    BY DEF CatchRestart, Return
  <2> HIDE DEF Later
  <2>4. QED BY <2>1, <2>2, <2>3, IdleRecord
<1>3. episodes' \in [Episodes -> Episode]
  BY <1>1, <1>2, SetType
<1>4. state' \in States /\ flags' \subseteq Flags
  BY DEF CatchRestart, TypeOK, States
<1>5. QED BY <1>3, <1>4

LEMMA FullRestartType ==
  ASSUME TypeOK, NEW i \in Episodes, NEW tries \in Nat, FullRestart(i, tries)
  PROVE  /\ episodes' \in [Episodes -> Episode]
         /\ state' \in States /\ gen' \in Nat /\ installed' \in Nat
         /\ stream' \in {"none", "live", "lost"} /\ flags' \subseteq Flags
<1> DEFINE Restarted == [episodes[i] EXCEPT !.pc = "rejoin", !.mode = "full",
                           !.gen = gen + 1, !.rgen = gen + 2, !.tries = tries]
<1>1. episodes[i] \in Episode /\ episodes \in [Episodes -> Episode]
  BY DEF TypeOK
<1>2. gen + 1 \in Nat /\ gen + 2 \in Nat
  BY DEF TypeOK
<1>3. Restarted \in Episode
  BY ONLY <1>1, <1>2, EpisodeMoves, tries \in Nat
<1>4. Set(i, Restarted) \/ Set(i, Idle)
  BY DEF FullRestart, Return, Release
<1> HIDE DEF Restarted
<1>5. episodes' \in [Episodes -> Episode]
  BY <1>1, <1>3, <1>4, IdleRecord, SetType
<1>6. /\ state' \in States /\ gen' \in Nat /\ installed' \in Nat
      /\ stream' \in {"none", "live", "lost"} /\ flags' \subseteq Flags
  BY <1>2 DEF FullRestart, Release, EndSession, session, TypeOK, States, Flags
<1>7. QED BY <1>5, <1>6

LEMMA ResumeType ==
  ASSUME TypeOK, NEW j \in joins, NEW pc \in {"joined", "joinFailed"}, Resume(j, pc)
  PROVE  joins' \subseteq Join /\ episodes' \in [Episodes -> Episode]
<1> DEFINE Resumed == [episodes[j.by] EXCEPT !.pc = pc]
<1>1. joins' \subseteq Join
  BY DEF Resume, TypeOK
<1>2. episodes \in [Episodes -> Episode]
  BY DEF TypeOK
<1>3. j.by \in Episodes => Resumed \in Episode
  <2>1. j.by \in Episodes => episodes[j.by] \in Episode
    BY <1>2
  <2>2. QED BY ONLY <2>1, EpisodeGoesTo, pc \in {"joined", "joinFailed"}
<1>4. UNCHANGED episodes \/ Set(j.by, Resumed)
  BY DEF Resume
<1> HIDE DEF Resumed
<1>5. episodes' \in [Episodes -> Episode]
  BY <1>2, <1>3, <1>4, SetType
<1>6. QED BY <1>1, <1>5

\* What the I/O thread tells the listeners is a delivery.
LEMMA TellType ==
  ASSUME NEW kind \in Kinds, NEW g \in Nat, NEW s \in States, Tell(kind, g, s)
  PROVE  ioDelivery' \in Delivery \cup {Nothing}
BY DeliveryRecords DEF Tell

\* The head of a queue of events, and what is left of the queue.
LEMMA QueueType ==
  ASSUME inbox \in Seq(Event), inbox # <<>>
  PROVE  /\ Head(inbox).gen \in Nat /\ Tail(inbox) \in Seq(Event)
         /\ \A e \in Event : Append(Tail(inbox), e) \in Seq(Event)
<1>1. Head(inbox) \in Event /\ Tail(inbox) \in Seq(Event)
  OBVIOUS
<1>2. Head(inbox).gen \in Nat
  BY ONLY <1>1 DEF Event
<1>3. QED BY <1>1, <1>2

\* Counting an input.
LEMMA UseType ==
  ASSUME calls \in [Inputs -> Nat], NEW c, NEW bound, Use(c, bound)
  PROVE  calls' \in [Inputs -> Nat]
<1>1. \A n \in Nat : n + 1 \in Nat
  OBVIOUS
<1>2. QED BY <1>1 DEF Use

\* A new join.
LEMMA BeginConnectType ==
  ASSUME TypeOK, NEW by \in Nat, BeginConnect(by)
  PROVE  /\ joins' \subseteq Join /\ state' \in States /\ gen' \in Nat
         /\ flags' \subseteq Flags
<1>1. gen + 1 \in Nat
  BY DEF TypeOK
<1>2. [gen |-> gen + 1, by |-> by, pc |-> "signal"] \in Join
  BY ONLY <1>1, JoinRecords, by \in Nat
<1>3. joins' \subseteq Join
  BY <1>2 DEF BeginConnect, TypeOK
<1>4. state' \in States /\ gen' \in Nat
  BY <1>1 DEF BeginConnect, States
<1>5. flags' \subseteq Flags
  BY DEF BeginConnect, TypeOK
<1>6. QED BY <1>3, <1>4, <1>5

\* What a handler of the queue leaves behind.
LEMMA HandleEventType ==
  ASSUME TypeOK, HandleEvent
  PROVE  TypeOK'
<1> DEFINE g == Head(inbox).gen
<1>1. inbox \in Seq(Event) /\ inbox # <<>>
  BY DEF HandleEvent, TypeOK
<1>2. g \in Nat /\ Tail(inbox) \in Seq(Event)
      /\ \A e \in Event : Append(Tail(inbox), e) \in Seq(Event)
  BY <1>1, QueueType
<1>3. /\ [kind |-> "close", gen |-> g] \in Event
      /\ [kind |-> "finalize", gen |-> g] \in Event
      /\ [kind |-> "attempt", gen |-> gen] \in Event
  <2>1. gen \in Nat
    BY DEF TypeOK
  <2>2. QED BY ONLY <1>2, <2>1, EventRecords
<1>4. gen + 1 \in Nat /\ gen \in Nat
  BY DEF TypeOK
<1>5. UNCHANGED <<joins, episodes, appDelivery, heard, app, calls>>
  BY DEF HandleEvent, coroutines
<1>6. Tell("Disconnected", gen + 1, "Disconnected") \/ Tell("Reconnecting", gen, "Reconnecting")
      \/ Tell("Disconnected", gen, "Disconnected") \/ UNCHANGED ioDelivery
      => ioDelivery' \in Delivery \cup {Nothing}
  BY <1>4, TellType DEF Kinds, States, TypeOK
<1>7. attempts \in 0 .. MaxReconnectAttempts /\ MaxReconnectAttempts \in Nat
  BY RoomAssumption DEF TypeOK
<1> HIDE DEF g
<1>8. CASE HandleClose(g)
  <2>1. inbox' \in Seq(Event)
    BY <1>2, <1>3, <1>8 DEF HandleClose
  <2>2. ioDelivery' \in Delivery \cup {Nothing}
    BY <1>6, <1>8 DEF HandleClose
  <2>3. attempts' \in 0 .. MaxReconnectAttempts
    BY <1>7, <1>8 DEF HandleClose, MayReconnect
  <2>4. /\ state' \in States /\ gen' \in Nat /\ installed' \in Nat
        /\ stream' \in {"none", "live", "lost"} /\ flags' \subseteq Flags
    BY <1>4, <1>8 DEF HandleClose, TypeOK, States, session
  <2>5. QED BY <1>5, <2>1, <2>2, <2>3, <2>4 DEF TypeOK
<1>9. CASE HandleLeave(g)
  <2>1. inbox' \in Seq(Event) /\ flags' \subseteq Flags
    BY <1>2, <1>3, <1>9 DEF HandleLeave, BeginServerDisconnect, TypeOK, Flags
  <2>2. QED BY <1>5, <1>9, <2>1 DEF HandleLeave, TypeOK, session
<1>10. CASE HandleReconnectRequest(g)
  <2>1. inbox' \in Seq(Event) /\ flags' \subseteq Flags
    BY <1>2, <1>3, <1>10 DEF HandleReconnectRequest, TypeOK, Flags
  <2>2. QED BY <1>5, <1>10, <2>1 DEF HandleReconnectRequest, TypeOK, session
<1>11. CASE FinalizeServerDisconnect(g)
  <2>1. inbox' \in Seq(Event)
    BY <1>2, <1>11 DEF FinalizeServerDisconnect
  <2>2. ioDelivery' \in Delivery \cup {Nothing}
    BY <1>6, <1>11 DEF FinalizeServerDisconnect
  <2>3. attempts' \in 0 .. MaxReconnectAttempts
    BY <1>7, <1>11 DEF FinalizeServerDisconnect
  <2>4. /\ state' \in States /\ gen' \in Nat /\ installed' \in Nat
        /\ stream' \in {"none", "live", "lost"} /\ flags' \subseteq Flags
    BY <1>4, <1>11 DEF FinalizeServerDisconnect, EndSession, TypeOK, States, session
  <2>5. QED BY <1>5, <2>1, <2>2, <2>3, <2>4 DEF TypeOK
<1>12. QED BY <1>8, <1>9, <1>10, <1>11 DEF HandleEvent, g

\* Every step keeps the types.
LEMMA TypeStep ==
  ASSUME TypeOK, [Next]_vars
  PROVE  TypeOK'
<1>1. /\ gen \in Nat /\ gen + 1 \in Nat /\ installed \in Nat
      /\ joins \subseteq Join /\ episodes \in [Episodes -> Episode]
      /\ 0 \in 0 .. MaxReconnectAttempts /\ Episodes \subseteq Nat
      /\ inbox \in Seq(Event) /\ calls \in [Inputs -> Nat]
  BY RoomAssumption DEF TypeOK
<1>2. \A kind \in Kinds, s \in States :
        /\ Tell(kind, gen, s) => ioDelivery' \in Delivery \cup {Nothing}
        /\ Tell(kind, gen + 1, s) => ioDelivery' \in Delivery \cup {Nothing}
  BY <1>1, TellType
<1>3. \A kind \in {"close", "leave", "reconnect"} :
        Post(kind) => inbox' \in Seq(Event)
  <2> TAKE kind \in {"close", "leave", "reconnect"}
  <2>1. [kind |-> kind, gen |-> installed] \in Event
    BY ONLY <1>1, EventRecords, kind \in {"close", "leave", "reconnect"}
  <2>2. QED BY <1>1, <2>1 DEF Post
<1>4. \A i \in Episodes : /\ episodes[i] \in Episode
                          /\ episodes[i].gen \in Nat /\ episodes[i].rgen \in Nat
                          /\ episodes[i].tries \in Nat
  BY <1>1, EpisodeFields
<1>5. \A i \in Episodes : Return(i) => episodes' \in [Episodes -> Episode]
  BY <1>1, IdleRecord, SetType DEF Return
<1>6. \A i \in Episodes, pc \in {"ice", "joining", "channel"} :
        Set(i, [episodes[i] EXCEPT !.pc = pc]) => episodes' \in [Episodes -> Episode]
  <2> TAKE i \in Episodes, pc \in {"ice", "joining", "channel"}
  <2>1. [episodes[i] EXCEPT !.pc = pc] \in Episode
    BY ONLY <1>4, EpisodeGoesTo, i \in Episodes, pc \in {"ice", "joining", "channel"}
  <2>2. QED BY ONLY <1>1, <2>1, SetType, i \in Episodes
<1>7. CASE Connect
  <2>1. BeginConnect(0) /\ calls' \in [Inputs -> Nat]
    BY <1>1, <1>7, UseType DEF Connect
  <2>2. QED BY <1>7, <2>1, BeginConnectType DEF Connect, BeginConnect, TypeOK, delivery
<1>8. CASE HandleEvent
  BY <1>8, HandleEventType
<1>9. CASE BeginAttempt
  <2>1. inbox' \in Seq(Event)
    BY <1>1, <1>9, QueueType DEF BeginAttempt, StartAttempt
  <2>2. episodes' \in [Episodes -> Episode] /\ flags' \subseteq Flags
    <3>1. Head(inbox).gen \in Nat
      BY <1>1, <1>9, QueueType DEF BeginAttempt
    <3>2. CASE UNCHANGED <<flags, episodes>>
      BY <3>2 DEF TypeOK
    <3>3. ASSUME NEW i \in Episodes, NEW mode \in {"resume", "full"},
                 Set(i, [pc |-> "delay", gen |-> Head(inbox).gen, rgen |-> 0,
                         mode |-> mode, tries |-> 0]),
                 flags' = (flags \cup {"active"}) \ {"full"}
          PROVE  episodes' \in [Episodes -> Episode] /\ flags' \subseteq Flags
      <4>1. [pc |-> "delay", gen |-> Head(inbox).gen, rgen |-> 0,
             mode |-> mode, tries |-> 0] \in Episode
        BY ONLY <3>1, NewEpisodeRecord, mode \in {"resume", "full"}
      <4>2. episodes' \in [Episodes -> Episode]
        BY ONLY <1>1, <3>3, <4>1, SetType
      <4>3. flags' \subseteq Flags
        BY <3>3 DEF TypeOK, Flags
      <4>4. QED BY <4>2, <4>3
    <3>4. QED BY <1>9, <3>2, <3>3 DEF BeginAttempt, StartAttempt
  <2>3. QED
    BY <1>9, <2>1, <2>2 DEF BeginAttempt, StartAttempt, TypeOK, session, delivery
<1>10. CASE DeliverOnIo
  BY <1>10 DEF DeliverOnIo, TypeOK, session, coroutines, Nothing, Delivery
<1>11. ASSUME NEW j \in joins, JoinCommit(j) PROVE TypeOK'
  <2>1. j.gen \in Nat /\ [j EXCEPT !.pc = "media"] \in Join
    BY <1>1, JoinRecords
  <2>2. joins' \subseteq Join
    BY <1>1, <1>11, <2>1 DEF JoinCommit
  <2>3. QED BY <1>11, <2>1, <2>2 DEF JoinCommit, TypeOK, delivery
<1>12. ASSUME NEW j \in joins, ConnectCommit(j) PROVE TypeOK'
  <2>1. joins' \subseteq Join /\ episodes' \in [Episodes -> Episode]
    BY <1>12, ResumeType DEF ConnectCommit
  <2>2. ioDelivery' \in Delivery \cup {Nothing}
    BY <1>2, <1>12 DEF ConnectCommit, Kinds, States, TypeOK
  <2>3. QED BY <1>12, <2>1, <2>2 DEF ConnectCommit, TypeOK, States
<1>13. ASSUME NEW j \in joins, JoinFails(j) PROVE TypeOK'
  <2>1. joins' \subseteq Join /\ episodes' \in [Episodes -> Episode]
    BY <1>13, ResumeType DEF JoinFails
  <2>2. QED BY <1>1, <1>13, <2>1 DEF JoinFails, TypeOK, States, delivery
<1>14. ASSUME NEW i \in Episodes, Wake(i) PROVE TypeOK'
  <2>1. CASE FullRestart(i, episodes[i].tries + 1)
    <3>1. episodes[i].tries + 1 \in Nat
      BY <1>4
    <3>2. QED
      BY <1>14, <2>1, <3>1, FullRestartType DEF Wake, TypeOK, delivery
  <2>2. CASE /\ Set(i, [episodes[i] EXCEPT !.pc = "restart", !.tries = @ + 1])
             /\ stream' = "lost" /\ UNCHANGED <<state, gen, installed, flags>>
    <3>1. [episodes[i] EXCEPT !.pc = "restart", !.tries = @ + 1] \in Episode
      BY ONLY <1>4, EpisodeRestarts, i \in Episodes
    <3>2. episodes' \in [Episodes -> Episode]
      BY ONLY <1>1, <2>2, <3>1, SetType, i \in Episodes
    <3>3. QED BY <1>14, <2>2, <3>2 DEF Wake, TypeOK, delivery
  <2>3. CASE Return(i) /\ UNCHANGED session /\ flags' \subseteq flags
    BY <1>5, <1>14, <2>3 DEF Wake, TypeOK, delivery, session
  <2>4. QED BY <1>14, <2>1, <2>2, <2>3 DEF Wake, Release
<1>15. ASSUME NEW i \in Episodes, ResumeSignal(i) PROVE TypeOK'
  BY <1>6, <1>15 DEF ResumeSignal, TypeOK, delivery
<1>16. ASSUME NEW i \in Episodes, ResumeCommit(i) PROVE TypeOK'
  <2>1. ioDelivery' \in Delivery \cup {Nothing}
    BY <1>2, <1>16 DEF ResumeCommit, Kinds, States
  <2>2. QED BY <1>1, <1>5, <1>16, <2>1 DEF ResumeCommit, Release, TypeOK, States
<1>17. ASSUME NEW i \in Episodes, ResumeFails(i) PROVE TypeOK'
  BY <1>4, <1>17, FullRestartType DEF ResumeFails, TypeOK, delivery
<1>18. ASSUME NEW i \in Episodes, Rejoin(i) PROVE TypeOK'
  <2>1. CASE BeginConnect(i) /\ Set(i, [episodes[i] EXCEPT !.pc = "joining"])
    <3>1. i \in Nat
      BY <1>1
    <3>2. episodes' \in [Episodes -> Episode]
      BY <1>6, <2>1
    <3>3. QED
      BY <1>18, <2>1, <3>1, <3>2, BeginConnectType
      DEF Rejoin, BeginConnect, TypeOK, delivery
  <2>2. CASE CatchRestart(i) /\ UNCHANGED <<gen, installed, stream, joins>>
    BY <1>18, <2>2, CatchRestartType, RoomAssumption DEF Rejoin, TypeOK, delivery
  <2>3. QED BY <1>18, <2>1, <2>2 DEF Rejoin
<1>19. ASSUME NEW i \in Episodes, Rejoined(i) PROVE TypeOK'
  <2>1. CASE CatchRestart(i)
    BY <1>19, <2>1, CatchRestartType, RoomAssumption DEF Rejoined, TypeOK, delivery
  <2>2. CASE /\ Set(i, [episodes[i] EXCEPT !.pc = "republish", !.gen = episodes[i].rgen])
             /\ UNCHANGED <<state, flags>>
    <3>1. [episodes[i] EXCEPT !.pc = "republish", !.gen = episodes[i].rgen] \in Episode
      BY ONLY <1>4, EpisodeMoves, i \in Episodes
    <3>2. episodes' \in [Episodes -> Episode]
      BY ONLY <1>1, <2>2, <3>1, SetType, i \in Episodes
    <3>3. QED BY <1>19, <2>2, <3>2 DEF Rejoined, TypeOK, delivery
  <2>3. QED BY <1>19, <2>1, <2>2 DEF Rejoined
<1>20. ASSUME NEW i \in Episodes, Republished(i) PROVE TypeOK'
  BY <1>5, <1>6, <1>20 DEF Republished, TypeOK, delivery, session
<1>21. ASSUME NEW i \in Episodes, ChannelReady(i) PROVE TypeOK'
  <2>1. ioDelivery' \in Delivery \cup {Nothing}
    BY <1>2, <1>21 DEF ChannelReady, Kinds, States, TypeOK
  <2>2. episodes' \in [Episodes -> Episode]
    BY <1>5, <1>21 DEF ChannelReady, Release
  <2>3. attempts' \in 0 .. MaxReconnectAttempts /\ flags' \subseteq Flags
    BY <1>1, <1>21 DEF ChannelReady, Release, TypeOK
  <2>4. QED BY <1>21, <2>1, <2>2, <2>3 DEF ChannelReady, TypeOK, session
<1>22. ASSUME NEW i \in Episodes, RestartFails(i) PROVE TypeOK'
  BY <1>22, CatchRestartType, RoomAssumption DEF RestartFails, TypeOK, delivery
<1>23. ASSUME NEW i \in Episodes, Exhaust(i) PROVE TypeOK'
  <2>1. ioDelivery' \in Delivery \cup {Nothing}
    BY <1>2, <1>23 DEF Exhaust, Kinds, States, TypeOK
  <2>2. episodes' \in [Episodes -> Episode]
    BY <1>5, <1>23 DEF Exhaust, Release
  <2>3. /\ state' \in States /\ gen' \in Nat /\ installed' \in Nat
        /\ stream' \in {"none", "live", "lost"} /\ flags' \subseteq Flags
    BY <1>1, <1>23 DEF Exhaust, Release, EndSession, TypeOK, States, session
  <2>4. QED BY <1>23, <2>1, <2>2, <2>3 DEF Exhaust, TypeOK
<1>24. DisconnectNow => /\ state' \in States /\ gen' \in Nat /\ installed' \in Nat
                        /\ stream' \in {"none", "live", "lost"} /\ flags' \subseteq Flags
                        /\ appDelivery' \in Delivery \cup {Nothing}
  <2>1. [kind |-> "Disconnected", gen |-> gen + 1, state |-> "Disconnected"] \in Delivery
    BY <1>1, DeliveryRecords DEF Kinds, States
  <2>2. QED BY <1>1, <2>1 DEF DisconnectNow, EndSession, TypeOK, States, Flags
<1>25. CASE Disconnect
  <2>1. calls' \in [Inputs -> Nat]
    BY <1>1, <1>25, UseType DEF Disconnect
  <2>2. QED BY <1>24, <1>25, <2>1 DEF Disconnect, TypeOK, coroutines
<1>26. CASE Retire
  BY <1>26 DEF Retire, TypeOK, session, coroutines, delivery, Flags
<1>27. CASE RetireDisconnect
  BY <1>24, <1>27 DEF RetireDisconnect, TypeOK, session, coroutines
<1>28. CASE DeliverOnApp
  BY <1>28 DEF DeliverOnApp, TypeOK, session, coroutines, Nothing, Delivery
<1>29. CASE LoseSignal
  <2>1. inbox' \in Seq(Event) /\ calls' \in [Inputs -> Nat]
    BY <1>1, <1>3, <1>29, UseType DEF LoseSignal
  <2>2. QED BY <1>29, <2>1 DEF LoseSignal, TypeOK, coroutines, delivery
<1>30. CASE ServerLeave
  <2>1. inbox' \in Seq(Event) /\ calls' \in [Inputs -> Nat]
    BY <1>1, <1>3, <1>30, UseType DEF ServerLeave
  <2>2. QED BY <1>30, <2>1 DEF ServerLeave, TypeOK, session, coroutines, delivery
<1>31. CASE ServerReconnectRequest
  <2>1. inbox' \in Seq(Event) /\ calls' \in [Inputs -> Nat]
    BY <1>1, <1>3, <1>31, UseType DEF ServerReconnectRequest
  <2>2. QED
    BY <1>31, <2>1 DEF ServerReconnectRequest, TypeOK, session, coroutines, delivery
<1>32. CASE UNCHANGED vars
  BY <1>32 DEF vars, TypeOK, session, coroutines, delivery
<1>33. QED
  BY <1>7, <1>8, <1>9, <1>10, <1>11, <1>12, <1>13, <1>14, <1>15, <1>16, <1>17,
     <1>18, <1>19, <1>20, <1>21, <1>22, <1>23, <1>25, <1>26, <1>27, <1>28,
     <1>29, <1>30, <1>31, <1>32
  DEF Next, IoStep, JoinStep, EpisodeStep, AppStep, NetworkStep

LEMMA InitType == Init => TypeOK
<1> SUFFICES ASSUME Init PROVE TypeOK
  OBVIOUS
<1>1. episodes \in [Episodes -> Episode] /\ 0 \in 0 .. MaxReconnectAttempts
  BY IdleRecord, RoomAssumption DEF Init
<1>2. QED BY <1>1 DEF Init, TypeOK, States, Flags

\* Types, and the budget of reconnections that a Close may use up.
THEOREM Typing == Spec => []TypeOK
BY InitType, TypeStep, PTL DEF Spec

-----------------------------------------------------------------------------
(* Sessions and generations *)

\* The catch block of a restart keeps a session only under its generation.
LEMMA CatchRestartOwnership ==
  ASSUME OwnershipInv, NEW i \in Episodes, CatchRestart(i), UNCHANGED <<gen, installed, joins>>
  PROVE  SessionOwnership' /\ ConnectingHasJoin'
<1>1. \/ state' = "Reconnecting" /\ installed \in {0, gen}
      \/ UNCHANGED state
  BY DEF CatchRestart, OwnershipInv, SessionOwnership
<1>2. QED BY <1>1 DEF OwnershipInv, SessionOwnership, ConnectingHasJoin

\* A torn down room has nothing installed.
LEMMA EndSessionOwnership ==
  ASSUME EndSession PROVE SessionOwnership' /\ ConnectingHasJoin'
BY DEF EndSession, SessionOwnership, ConnectingHasJoin

LEMMA FullRestartOwnership ==
  ASSUME OwnershipInv, NEW i \in Episodes, NEW tries, FullRestart(i, tries), UNCHANGED joins
  PROVE  SessionOwnership' /\ ConnectingHasJoin'
<1>1. EndSession \/ UNCHANGED session
  BY DEF FullRestart
<1>2. CASE UNCHANGED session
  BY <1>2 DEF session, OwnershipInv, SessionOwnership, ConnectingHasJoin
<1>3. QED BY <1>1, <1>2, EndSessionOwnership

\* A new join owns a session of a new generation.
LEMMA BeginConnectOwnership ==
  ASSUME OwnershipInv, MayConnect, NEW by \in Nat, BeginConnect(by)
  PROVE  SessionOwnership' /\ ConnectingHasJoin'
<1>1. state' = "Connecting" /\ installed' = 0 /\ \E j \in joins' : j.gen = gen'
  <2> DEFINE new == [gen |-> gen + 1, by |-> by, pc |-> "signal"]
  <2>1. new.gen = gen + 1
    OBVIOUS
  <2>2. new \in joins' /\ gen' = gen + 1
    BY DEF BeginConnect
  <2> HIDE DEF new
  <2>3. \E j \in joins' : j.gen = gen'
    BY <2>1, <2>2
  <2>4. QED BY <2>3 DEF BeginConnect, MayConnect
<1>2. QED BY <1>1 DEF SessionOwnership, ConnectingHasJoin

LEMMA OwnershipStep ==
  ASSUME OwnershipInv, [Next]_vars
  PROVE  SessionOwnership' /\ ConnectingHasJoin'
<1> USE DEF OwnershipInv, SessionOwnership, ConnectingHasJoin
<1>1. joins \subseteq Join /\ gen \in Nat /\ Episodes \subseteq Nat /\ 0 \in Nat
  BY RoomAssumption DEF TypeOK
<1>2. CASE UNCHANGED session /\ UNCHANGED joins
  BY <1>2 DEF session
<1>3. CASE Connect
  BY <1>1, <1>3, BeginConnectOwnership DEF Connect
<1>4. CASE HandleEvent
  <2>1. UNCHANGED joins
    BY <1>4 DEF HandleEvent, coroutines
  <2>2. EndSession \/ UNCHANGED session \/ HandleClose(Head(inbox).gen)
    BY <1>4 DEF HandleEvent, HandleLeave, HandleReconnectRequest, FinalizeServerDisconnect
  <2>3. ASSUME NEW g, HandleClose(g) PROVE SessionOwnership' /\ ConnectingHasJoin'
    <3>1. CASE state' = "Reconnecting" /\ UNCHANGED <<gen, installed>> /\ state = "Connected"
      BY <2>1, <3>1
    <3>2. CASE state = "Connecting" /\ state' = "Disconnected" /\ UNCHANGED installed
      BY <2>1, <3>2
    <3>3. CASE state' = "Disconnected" /\ UNCHANGED <<gen, installed>>
      BY <2>1, <3>3
    <3>4. CASE UNCHANGED <<state, gen, installed>>
      BY <2>1, <3>4
    <3>5. QED
      BY <2>3, <3>1, <3>2, <3>3, <3>4 DEF HandleClose, MayReconnect, session
  <2>4. CASE UNCHANGED session
    BY <2>1, <2>4 DEF session
  <2>5. QED BY <2>2, <2>3, <2>4, EndSessionOwnership
<1>5. ASSUME NEW j \in joins, JoinCommit(j) PROVE SessionOwnership' /\ ConnectingHasJoin'
  <2>1. [j EXCEPT !.pc = "media"].gen = j.gen
    BY <1>1, JoinRecords
  <2>2. \E k \in joins' : k.gen = gen
    BY <1>5, <2>1 DEF JoinCommit
  <2>3. installed' = gen /\ UNCHANGED <<state, gen>>
    BY <1>5 DEF JoinCommit
  <2>4. QED BY <2>2, <2>3
<1>6. ASSUME NEW j \in joins, ConnectCommit(j) PROVE SessionOwnership' /\ ConnectingHasJoin'
  <2>1. state' = "Connected" /\ installed' = gen'
    BY <1>6 DEF ConnectCommit
  <2>2. QED BY <2>1
<1>7. ASSUME NEW j \in joins, JoinFails(j) PROVE SessionOwnership' /\ ConnectingHasJoin'
  <2>1. joins' = joins \ {j}
    BY <1>7 DEF JoinFails, Resume
  <2>2. CASE j.gen \in {gen, installed}
    <3>1. state' = "Disconnected"
      BY <1>7, <2>2 DEF JoinFails
    <3>2. installed' \notin {0, gen'} => \E k \in joins' : k.gen = installed'
      BY <1>7, <2>1, <2>2 DEF JoinFails
    <3>3. QED BY <3>1, <3>2
  <2>3. CASE j.gen \notin {gen, installed}
    BY <1>7, <2>1, <2>3 DEF JoinFails
  <2>4. QED BY <2>2, <2>3
<1>8. ASSUME NEW i \in Episodes, Wake(i) PROVE SessionOwnership' /\ ConnectingHasJoin'
  <2>1. UNCHANGED joins
    BY <1>8 DEF Wake
  <2>2. FullRestart(i, episodes[i].tries + 1) \/ UNCHANGED <<state, gen, installed>>
    BY <1>8 DEF Wake, session
  <2>3. CASE UNCHANGED <<state, gen, installed>>
    BY <2>1, <2>3
  <2>4. QED BY <2>1, <2>2, <2>3, FullRestartOwnership
<1>9. ASSUME NEW i \in Episodes, ResumeSignal(i) PROVE SessionOwnership' /\ ConnectingHasJoin'
  BY <1>9 DEF ResumeSignal
<1>10. ASSUME NEW i \in Episodes, ResumeCommit(i) PROVE SessionOwnership' /\ ConnectingHasJoin'
  <2>1. installed = gen
    BY <1>10 DEF ResumeCommit, Current, OwnsInstalled, IsSignalGenerationCurrent
  <2>2. QED BY <1>10, <2>1 DEF ResumeCommit
<1>11. ASSUME NEW i \in Episodes, ResumeFails(i) PROVE SessionOwnership' /\ ConnectingHasJoin'
  BY <1>11, FullRestartOwnership DEF ResumeFails
<1>12. ASSUME NEW i \in Episodes, Rejoin(i) PROVE SessionOwnership' /\ ConnectingHasJoin'
  <2>1. i \in Nat
    BY <1>1
  <2>2. \/ MayConnect /\ BeginConnect(i)
        \/ CatchRestart(i) /\ UNCHANGED <<gen, installed, joins>>
    BY <1>12 DEF Rejoin
  <2>3. QED BY <2>1, <2>2, BeginConnectOwnership, CatchRestartOwnership
<1>13. ASSUME NEW i \in Episodes, Rejoined(i) PROVE SessionOwnership' /\ ConnectingHasJoin'
  <2>1. UNCHANGED state \/ CatchRestart(i)
    BY <1>13 DEF Rejoined
  <2>2. UNCHANGED <<gen, installed, joins>>
    BY <1>13 DEF Rejoined
  <2>3. CASE UNCHANGED state
    BY <2>2, <2>3
  <2>4. QED BY <2>1, <2>2, <2>3, CatchRestartOwnership
<1>14. ASSUME NEW i \in Episodes, RestartFails(i) PROVE SessionOwnership' /\ ConnectingHasJoin'
  BY <1>14, CatchRestartOwnership DEF RestartFails
<1>15. ASSUME NEW i \in Episodes, Exhaust(i) PROVE SessionOwnership' /\ ConnectingHasJoin'
  <2>1. UNCHANGED joins /\ (EndSession \/ UNCHANGED session)
    BY <1>15 DEF Exhaust
  <2>2. QED BY <1>2, <2>1, EndSessionOwnership
<1>16. CASE Disconnect \/ RetireDisconnect
  <2>1. UNCHANGED joins /\ (EndSession \/ UNCHANGED session)
    BY <1>16 DEF Disconnect, RetireDisconnect, DisconnectNow, coroutines
  <2>2. QED BY <1>2, <2>1, EndSessionOwnership
<1>17. CASE LoseSignal
  BY <1>17 DEF LoseSignal, coroutines
<1>18. CASE BeginAttempt \/ DeliverOnIo \/ Retire \/ DeliverOnApp \/ ServerLeave
            \/ ServerReconnectRequest \/ UNCHANGED vars
  BY <1>2, <1>18
  DEF BeginAttempt, StartAttempt, DeliverOnIo, Retire, DeliverOnApp, ServerLeave,
      ServerReconnectRequest, vars, coroutines
<1>19. ASSUME NEW i \in Episodes, Republished(i) \/ ChannelReady(i)
       PROVE  SessionOwnership' /\ ConnectingHasJoin'
  BY <1>2, <1>19 DEF Republished, ChannelReady
<1>20. QED
  BY <1>3, <1>4, <1>5, <1>6, <1>7, <1>8, <1>9, <1>10, <1>11, <1>12, <1>13,
     <1>14, <1>15, <1>16, <1>17, <1>18, <1>19
  DEF Next, IoStep, JoinStep, EpisodeStep, AppStep, NetworkStep

\* A session in use is the current one, and nothing else stays installed but
\* what a running join will take back.
THEOREM Ownership == Spec => []SessionOwnership
<1>1. Init => OwnershipInv
  BY InitType DEF Init, OwnershipInv, SessionOwnership, ConnectingHasJoin
<1>2. OwnershipInv /\ [Next]_vars => OwnershipInv'
  BY TypeStep, OwnershipStep DEF OwnershipInv
<1>3. OwnershipInv => SessionOwnership
  BY DEF OwnershipInv
<1>4. QED BY <1>1, <1>2, <1>3, PTL DEF Spec

-----------------------------------------------------------------------------
(* Retirement *)

\* A step of the I/O thread leaves a retired room as it is: down, with nothing
\* installed and nobody reconnecting.
LEMMA RetirementStep ==
  ASSUME RetirementInv, [Next]_vars
  PROVE  RetiredIsFlagged' /\ RetirementIsFinal'
<1> USE DEF RetirementInv, RetiredIsFlagged, RetirementIsFinal, retired, active
<1> DEFINE Kept == RetiredIsFlagged' /\ RetirementIsFinal'
<1>1. ASSUME NEW by, BeginConnect(by), MayConnect, UNCHANGED app PROVE Kept
  BY <1>1 DEF BeginConnect, MayConnect
<1>2. ASSUME NEW i \in Episodes, CatchRestart(i), UNCHANGED <<installed, app>> PROVE Kept
  BY <1>2 DEF CatchRestart
<1>3. ASSUME NEW i \in Episodes, NEW tries, FullRestart(i, tries), UNCHANGED app PROVE Kept
  BY <1>3 DEF FullRestart, Release, EndSession, session
<1>4. CASE Connect
  BY <1>1, <1>4 DEF Connect
<1>5. CASE HandleEvent
  <2>1. UNCHANGED app
    BY <1>5 DEF HandleEvent
  <2>2. ASSUME NEW g, HandleClose(g) PROVE Kept
    <3>1. UNCHANGED <<installed, flags>> /\ (retired => UNCHANGED state)
      BY <2>2 DEF HandleClose, session, IsSignalGenerationCurrent
    <3>2. QED BY <2>1, <3>1
  <2>3. ASSUME NEW g, HandleLeave(g) \/ HandleReconnectRequest(g) \/ FinalizeServerDisconnect(g)
        PROVE  Kept
    BY <2>1, <2>3 DEF HandleLeave, BeginServerDisconnect, HandleReconnectRequest,
                      FinalizeServerDisconnect, EndSession, session
  <2>4. QED BY <1>5, <2>2, <2>3 DEF HandleEvent
<1>6. CASE BeginAttempt
  BY <1>6 DEF BeginAttempt, StartAttempt, CanOwn, IsSignalGenerationCurrent, session
<1>7. ASSUME NEW j \in joins, JoinCommit(j) \/ ConnectCommit(j) \/ JoinFails(j) PROVE Kept
  BY <1>7 DEF JoinCommit, ConnectCommit, JoinFails
<1>8. ASSUME NEW i \in Episodes, Wake(i) PROVE Kept
  <2>1. UNCHANGED app
    BY <1>8 DEF Wake
  <2>2. \/ FullRestart(i, episodes[i].tries + 1)
        \/ UNCHANGED <<state, installed>> /\ (UNCHANGED flags \/ flags' = flags \ {"active"})
    BY <1>8 DEF Wake, Release, session
  <2>3. QED BY <1>3, <2>1, <2>2
<1>9. ASSUME NEW i \in Episodes, ResumeSignal(i) \/ ResumeCommit(i) PROVE Kept
  BY <1>9 DEF ResumeSignal, ResumeCommit, Release
<1>10. ASSUME NEW i \in Episodes, ResumeFails(i) PROVE Kept
  BY <1>3, <1>10 DEF ResumeFails
<1>11. ASSUME NEW i \in Episodes, Rejoin(i) PROVE Kept
  BY <1>1, <1>2, <1>11 DEF Rejoin
<1>12. ASSUME NEW i \in Episodes, Rejoined(i) PROVE Kept
  <2>1. UNCHANGED <<installed, app>> /\ (CatchRestart(i) \/ UNCHANGED <<state, flags>>)
    BY <1>12 DEF Rejoined
  <2>2. QED BY <1>2, <2>1
<1>13. ASSUME NEW i \in Episodes, RestartFails(i) PROVE Kept
  BY <1>2, <1>13 DEF RestartFails
<1>14. ASSUME NEW i \in Episodes, Republished(i) \/ ChannelReady(i) PROVE Kept
  BY <1>14 DEF Republished, ChannelReady, Release, session
<1>15. ASSUME NEW i \in Episodes, Exhaust(i) PROVE Kept
  BY <1>15 DEF Exhaust, Release, EndSession, session
<1>16. CASE Disconnect
  BY <1>16 DEF Disconnect, DisconnectNow, EndSession
<1>17. CASE Retire
  BY <1>17 DEF Retire
<1>18. CASE RetireDisconnect
  BY <1>18 DEF RetireDisconnect, DisconnectNow, NothingToDisconnect, EndSession, session
<1>19. CASE DeliverOnIo \/ DeliverOnApp \/ LoseSignal \/ ServerLeave
            \/ ServerReconnectRequest \/ UNCHANGED vars
  BY <1>19 DEF DeliverOnIo, DeliverOnApp, LoseSignal, ServerLeave,
               ServerReconnectRequest, vars, session
<1>20. QED
  BY <1>4, <1>5, <1>6, <1>7, <1>8, <1>9, <1>10, <1>11, <1>12, <1>13, <1>14,
     <1>15, <1>16, <1>17, <1>18, <1>19
  DEF Next, IoStep, JoinStep, EpisodeStep, AppStep, NetworkStep

\* Once Retire returned, no session is or will be installed.
THEOREM Retirement == Spec => []RetirementIsFinal
<1>1. Init => RetirementInv
  BY InitType DEF Init, RetirementInv, RetiredIsFlagged, RetirementIsFinal, retired
<1>2. RetirementInv /\ [Next]_vars => RetirementInv'
  BY TypeStep, RetirementStep DEF RetirementInv
<1>3. RetirementInv => RetirementIsFinal
  BY DEF RetirementInv
<1>4. QED BY <1>1, <1>2, <1>3, PTL DEF Spec

-----------------------------------------------------------------------------
(* Server leaves *)

\* Where the moves of an episode take it.
LEMMA EpisodePcs ==
  ASSUME NEW e \in Episode, NEW g, NEW n,
         NEW pc \in {"ice", "joining", "joined", "joinFailed", "channel"}
  PROVE  /\ [e EXCEPT !.pc = pc].pc = pc
         /\ [e EXCEPT !.pc = "delay", !.gen = g].pc = "delay"
         /\ [e EXCEPT !.pc = "republish", !.gen = g].pc = "republish"
         /\ [e EXCEPT !.pc = "restart", !.tries = n].pc = "restart"
         /\ Idle.pc = "none"
BY DEF Episode, Idle

\* An episode that is moved elsewhere is not about to join.
LEMMA SetPc ==
  ASSUME TypeOK, NEW i, NEW r, r.pc # "rejoin", Set(i, r)
  PROVE  \A k \in Episodes : episodes'[k].pc = "rejoin" => episodes[k].pc = "rejoin"
BY DEF Set, TypeOK

\* A step that brings no episode to the brink of a join, notes no leave and
\* keeps reconnection disabled is harmless.
LEMMA LeaveKept ==
  ASSUME ServerLeftIsDisabled,
         \A k \in Episodes : episodes'[k].pc = "rejoin" => episodes[k].pc = "rejoin",
         "serverLeft" \in flags' => "serverLeft" \in flags,
         disabled => disabled'
  PROVE  ServerLeftIsDisabled'
BY DEF ServerLeftIsDisabled

\* The catch block of a restart does not touch the marks of a leave.
LEMMA CatchRestartLeave ==
  ASSUME LeaveInv, NEW i \in Episodes, CatchRestart(i) PROVE ServerLeftIsDisabled'
<1>1. episodes[i] \in Episode
  BY DEF LeaveInv, TypeOK
<1>2. /\ \A g : [episodes[i] EXCEPT !.pc = "delay", !.gen = g].pc # "rejoin"
      /\ Idle.pc # "rejoin"
  BY <1>1, EpisodePcs
<1>3. \/ \E g : Set(i, [episodes[i] EXCEPT !.pc = "delay", !.gen = g])
      \/ Set(i, Idle)
  BY DEF CatchRestart, Return
<1>4. \A k \in Episodes : episodes'[k].pc = "rejoin" => episodes[k].pc = "rejoin"
  BY <1>2, <1>3, SetPc DEF LeaveInv
<1>5. UNCHANGED flags \/ flags' = flags \ {"suppress"}
  BY DEF CatchRestart
<1>6. QED BY <1>4, <1>5, LeaveKept DEF LeaveInv, disabled

\* A full restart goes on to join only where no leave disabled it.
LEMMA FullRestartLeave ==
  ASSUME LeaveInv, NEW i \in Episodes, NEW tries, FullRestart(i, tries)
  PROVE  ServerLeftIsDisabled'
<1>1. CASE Return(i) /\ (UNCHANGED flags \/ flags' = flags \ {"active"})
  <2>1. \A k \in Episodes : episodes'[k].pc = "rejoin" => episodes[k].pc = "rejoin"
    <3>1. Idle.pc # "rejoin"
      BY DEF Idle
    <3>2. QED BY <1>1, <3>1, SetPc DEF LeaveInv, Return
  <2>2. QED BY <1>1, <2>1, LeaveKept DEF LeaveInv, disabled
<1>2. CASE ~disabled /\ flags' = flags \cup {"suppress"}
  BY <1>2 DEF LeaveInv, ServerLeftIsDisabled
<1>3. QED BY <1>1, <1>2 DEF FullRestart, Release

\* A join goes on with the leave forgotten only if the application asked for it.
LEMMA BeginConnectLeave ==
  ASSUME LeaveInv, NEW by, BeginConnect(by), MayConnect,
         \/ by = 0 /\ UNCHANGED episodes
         \/ /\ by \in Episodes /\ episodes[by].pc = "rejoin"
            /\ Set(by, [episodes[by] EXCEPT !.pc = "joining"])
  PROVE  ServerLeftIsDisabled' /\ "serverLeft" \notin flags'
<1>1. "serverLeft" \notin flags'
  BY DEF BeginConnect, LeaveInv, ServerLeftIsDisabled
<1>2. QED BY <1>1 DEF ServerLeftIsDisabled

LEMMA LeaveStep ==
  ASSUME LeaveInv, [Next]_vars
  PROVE  ServerLeftIsDisabled'
<1> DEFINE Kept == ServerLeftIsDisabled'
<1>1. \A i \in Episodes : episodes[i] \in Episode
  BY DEF LeaveInv, TypeOK
<1>2. ASSUME UNCHANGED episodes, "serverLeft" \in flags' => "serverLeft" \in flags,
             disabled => disabled'
      PROVE  Kept
  BY <1>2, LeaveKept DEF LeaveInv
<1>3. ASSUME NEW i, NEW r, Set(i, r), r.pc # "rejoin",
             "serverLeft" \in flags' => "serverLeft" \in flags, disabled => disabled'
      PROVE  Kept
  BY <1>3, SetPc, LeaveKept DEF LeaveInv
<1>4. ASSUME NEW i \in Episodes, Return(i),
             UNCHANGED flags \/ flags' = flags \ {"active"}
                            \/ flags' = flags \ {"active", "suppress"}
      PROVE  Kept
  <2>1. Idle.pc # "rejoin"
    BY DEF Idle
  <2>2. QED BY <1>3, <1>4, <2>1 DEF Return, disabled
<1>5. CASE Connect
  BY <1>5, BeginConnectLeave DEF Connect
<1>6. CASE HandleEvent
  <2>1. UNCHANGED episodes /\ IoFree
    BY <1>6 DEF HandleEvent, coroutines
  <2>2. ASSUME NEW g, HandleLeave(g) PROVE Kept
    BY <2>1, <2>2 DEF HandleLeave, BeginServerDisconnect, IoFree, LeaveInv,
                      ServerLeftIsDisabled, disabled
  <2>3. ASSUME NEW g, HandleClose(g) PROVE Kept
    <3>1. UNCHANGED flags
      BY <2>3 DEF HandleClose
    <3>2. QED BY <1>2, <2>1, <3>1 DEF disabled
  <2>4. ASSUME NEW g, HandleReconnectRequest(g) \/ FinalizeServerDisconnect(g) PROVE Kept
    BY <1>2, <2>1, <2>4 DEF HandleReconnectRequest, FinalizeServerDisconnect, disabled
  <2>5. QED BY <1>6, <2>2, <2>3, <2>4 DEF HandleEvent
<1>7. CASE BeginAttempt
  <2>1. CASE UNCHANGED <<flags, episodes>>
    BY <1>2, <2>1 DEF disabled
  <2>2. ASSUME NEW i \in Episodes, NEW mode,
               Set(i, [pc |-> "delay", gen |-> Head(inbox).gen, rgen |-> 0,
                       mode |-> mode, tries |-> 0]),
               flags' = (flags \cup {"active"}) \ {"full"}
        PROVE  Kept
    <3> DEFINE new == [pc |-> "delay", gen |-> Head(inbox).gen, rgen |-> 0,
                       mode |-> mode, tries |-> 0]
    <3>1. new.pc # "rejoin"
      OBVIOUS
    <3> HIDE DEF new
    <3>2. Set(i, new)
      BY <2>2 DEF new
    <3>3. QED BY <1>3, <2>2, <3>1, <3>2 DEF disabled
  <2>3. QED BY <1>7, <2>1, <2>2 DEF BeginAttempt, StartAttempt
<1>8. ASSUME NEW j \in joins, JoinCommit(j) PROVE Kept
  BY <1>2, <1>8 DEF JoinCommit, disabled
<1>9. ASSUME NEW j \in joins, ConnectCommit(j) \/ JoinFails(j) PROVE Kept
  <2>1. UNCHANGED flags \/ flags' = flags \ {"suppress"}
    BY <1>9 DEF ConnectCommit, JoinFails
  <2>2. CASE UNCHANGED episodes
    BY <1>2, <2>1, <2>2 DEF disabled
  <2>3. ASSUME NEW pc \in {"joined", "joinFailed"},
               Set(j.by, [episodes[j.by] EXCEPT !.pc = pc])
        PROVE  Kept
    <3>1. CASE j.by \in Episodes
      <4>1. [episodes[j.by] EXCEPT !.pc = pc].pc # "rejoin"
        BY <1>1, <3>1, EpisodePcs
      <4>2. QED BY <1>3, <2>1, <2>3, <4>1 DEF disabled
    <3>2. CASE j.by \notin Episodes
      <4>1. UNCHANGED episodes
        BY <2>3, <3>2 DEF Set, LeaveInv, TypeOK
      <4>2. QED BY <2>2, <4>1
    <3>3. QED BY <3>1, <3>2
  <2>4. QED BY <1>9, <2>2, <2>3 DEF ConnectCommit, JoinFails, Resume
<1>10. ASSUME NEW i \in Episodes, Wake(i) PROVE Kept
  <2>1. CASE FullRestart(i, episodes[i].tries + 1)
    BY <2>1, FullRestartLeave
  <2>2. CASE Set(i, [episodes[i] EXCEPT !.pc = "restart", !.tries = @ + 1]) /\ UNCHANGED flags
    <3>1. [episodes[i] EXCEPT !.pc = "restart", !.tries = @ + 1].pc # "rejoin"
      BY <1>1, EpisodePcs
    <3>2. QED BY <1>3, <2>2, <3>1 DEF disabled
  <2>3. CASE Return(i) /\ (UNCHANGED flags \/ flags' = flags \ {"active"})
    BY <1>4, <2>3
  <2>4. QED BY <1>10, <2>1, <2>2, <2>3 DEF Wake, Release
<1>11. ASSUME NEW i \in Episodes, NEW pc \in {"ice", "channel"},
              Set(i, [episodes[i] EXCEPT !.pc = pc]), UNCHANGED flags
       PROVE  Kept
  <2>1. [episodes[i] EXCEPT !.pc = pc].pc # "rejoin"
    BY <1>1, EpisodePcs
  <2>2. QED BY <1>3, <1>11, <2>1 DEF disabled
<1>12. ASSUME NEW i \in Episodes, ResumeSignal(i) \/ ResumeCommit(i) PROVE Kept
  BY <1>4, <1>11, <1>12 DEF ResumeSignal, ResumeCommit, Release
<1>13. ASSUME NEW i \in Episodes, ResumeFails(i) PROVE Kept
  BY <1>13, FullRestartLeave DEF ResumeFails
<1>14. ASSUME NEW i \in Episodes, Rejoin(i) PROVE Kept
  BY <1>14, BeginConnectLeave, CatchRestartLeave DEF Rejoin
<1>15. ASSUME NEW i \in Episodes, Rejoined(i) PROVE Kept
  <2>1. CASE CatchRestart(i)
    BY <2>1, CatchRestartLeave
  <2>2. CASE /\ Set(i, [episodes[i] EXCEPT !.pc = "republish", !.gen = episodes[i].rgen])
             /\ UNCHANGED flags
    <3>1. [episodes[i] EXCEPT !.pc = "republish", !.gen = episodes[i].rgen].pc # "rejoin"
      BY <1>1, EpisodePcs
    <3>2. QED BY <1>3, <2>2, <3>1 DEF disabled
  <2>3. QED BY <1>15, <2>1, <2>2 DEF Rejoined
<1>16. ASSUME NEW i \in Episodes, Republished(i) \/ ChannelReady(i) PROVE Kept
  BY <1>4, <1>11, <1>16 DEF Republished, ChannelReady, Release
<1>17. ASSUME NEW i \in Episodes, RestartFails(i) PROVE Kept
  BY <1>17, CatchRestartLeave DEF RestartFails
<1>18. ASSUME NEW i \in Episodes, Exhaust(i) PROVE Kept
  BY <1>4, <1>18 DEF Exhaust, Release
<1>19. CASE Disconnect \/ Retire \/ RetireDisconnect
  BY <1>2, <1>19 DEF Disconnect, Retire, RetireDisconnect, DisconnectNow, coroutines, disabled
<1>20. CASE DeliverOnIo \/ DeliverOnApp \/ LoseSignal \/ ServerLeave
            \/ ServerReconnectRequest \/ UNCHANGED vars
  BY <1>2, <1>20 DEF DeliverOnIo, DeliverOnApp, LoseSignal, ServerLeave,
                     ServerReconnectRequest, vars, coroutines, disabled
<1>21. QED
  BY <1>5, <1>6, <1>7, <1>8, <1>9, <1>10, <1>12, <1>13, <1>14, <1>15, <1>16,
     <1>17, <1>18, <1>19, <1>20
  DEF Next, IoStep, JoinStep, EpisodeStep, AppStep, NetworkStep

\* Only two actions begin to connect: the call of the application, which
\* forgets the leave, and the join of a full restart, which found none.
LEMMA ConnectingStep ==
  ASSUME LeaveInv, [Next]_vars, state # "Connecting", state' = "Connecting"
  PROVE  "serverLeft" \notin flags'
<1>1. CASE Connect
  BY <1>1, BeginConnectLeave DEF Connect
<1>2. ASSUME NEW i \in Episodes, CatchRestart(i) PROVE FALSE
  BY <1>2 DEF CatchRestart
<1>3. ASSUME NEW i \in Episodes, NEW tries, FullRestart(i, tries) PROVE FALSE
  BY <1>3 DEF FullRestart, EndSession, session
<1>4. ASSUME NEW i \in Episodes, Rejoin(i) PROVE "serverLeft" \notin flags'
  BY <1>2, <1>4, BeginConnectLeave DEF Rejoin
<1>5. ASSUME NEW g, \/ HandleClose(g) \/ HandleLeave(g) \/ HandleReconnectRequest(g)
                   \/ FinalizeServerDisconnect(g)
      PROVE  FALSE
  BY <1>5 DEF HandleClose, HandleLeave, HandleReconnectRequest,
              FinalizeServerDisconnect, EndSession, session
<1>6. CASE HandleEvent
  BY <1>5, <1>6 DEF HandleEvent
<1>7. ASSUME NEW j \in joins, JoinStep(j) PROVE FALSE
  BY <1>7 DEF JoinStep, JoinCommit, ConnectCommit, JoinFails
<1>8. ASSUME NEW i \in Episodes, Wake(i) PROVE FALSE
  BY <1>3, <1>8 DEF Wake, session
<1>9. ASSUME NEW i \in Episodes,
             \/ ResumeSignal(i) \/ ResumeCommit(i) \/ Republished(i) \/ ChannelReady(i)
      PROVE  FALSE
  BY <1>9 DEF ResumeSignal, ResumeCommit, Republished, ChannelReady, session
<1>10. ASSUME NEW i \in Episodes, ResumeFails(i) \/ RestartFails(i) \/ Exhaust(i)
       PROVE  FALSE
  BY <1>2, <1>3, <1>10 DEF ResumeFails, RestartFails, Exhaust, EndSession, session
<1>11. ASSUME NEW i \in Episodes, Rejoined(i) PROVE FALSE
  BY <1>2, <1>11 DEF Rejoined
<1>12. ASSUME Disconnect \/ Retire \/ RetireDisconnect PROVE FALSE
  BY <1>12 DEF Disconnect, Retire, RetireDisconnect, DisconnectNow, EndSession, session
<1>13. ASSUME \/ BeginAttempt \/ DeliverOnIo \/ DeliverOnApp \/ LoseSignal \/ ServerLeave
              \/ ServerReconnectRequest \/ UNCHANGED vars
       PROVE  FALSE
  BY <1>13 DEF BeginAttempt, StartAttempt, DeliverOnIo, DeliverOnApp, LoseSignal,
               ServerLeave, ServerReconnectRequest, vars, session
<1>14. QED
  BY <1>1, <1>4, <1>6, <1>7, <1>8, <1>9, <1>10, <1>11, <1>12, <1>13
  DEF Next, IoStep, EpisodeStep, AppStep, NetworkStep

\* After a terminal LeaveRequest was accepted nothing joins the room again
\* until the application asks for it.
THEOREM ServerLeaveIsFinal == Spec => ServerLeaveNeverRejoined
<1>1. Init => LeaveInv
  BY InitType DEF Init, LeaveInv, ServerLeftIsDisabled, Idle
<1>2. LeaveInv /\ [Next]_vars => LeaveInv'
  BY TypeStep, LeaveStep DEF LeaveInv
<1>3. LeaveInv /\ [Next]_vars
        => [state' = "Connecting" /\ state # "Connecting" => "serverLeft" \notin flags']_vars
  BY ConnectingStep
<1>4. QED BY <1>1, <1>2, <1>3, PTL DEF Spec, ServerLeaveNeverRejoined

-----------------------------------------------------------------------------
(* Leaves of the user *)

\* Nobody but Disconnect and Retire notes that the user has left.
LEMMA OnlyDisconnectLeaves ==
  ASSUME [Next]_vars, "userLeft" \notin flags
  PROVE  Disconnect \/ RetireDisconnect \/ "userLeft" \notin flags'
<1> DEFINE Kept == "userLeft" \notin flags'
<1>1. ASSUME NEW i \in Episodes, CatchRestart(i) PROVE Kept
  BY <1>1 DEF CatchRestart
<1>2. ASSUME NEW i \in Episodes, NEW tries, FullRestart(i, tries) PROVE Kept
  BY <1>2 DEF FullRestart, Release
<1>3. ASSUME NEW by, BeginConnect(by) PROVE Kept
  BY <1>3 DEF BeginConnect
<1>4. CASE Connect
  BY <1>3, <1>4 DEF Connect
<1>5. CASE HandleEvent
  <2>1. ASSUME NEW g, \/ HandleClose(g) \/ HandleLeave(g) \/ HandleReconnectRequest(g)
                     \/ FinalizeServerDisconnect(g)
        PROVE  Kept
    BY <2>1 DEF HandleClose, HandleLeave, BeginServerDisconnect, HandleReconnectRequest,
                FinalizeServerDisconnect
  <2>2. QED BY <1>5, <2>1 DEF HandleEvent
<1>6. CASE BeginAttempt
  BY <1>6 DEF BeginAttempt, StartAttempt
<1>7. ASSUME NEW j \in joins, JoinStep(j) PROVE Kept
  BY <1>7 DEF JoinStep, JoinCommit, ConnectCommit, JoinFails
<1>8. ASSUME NEW i \in Episodes, Wake(i) PROVE Kept
  BY <1>2, <1>8 DEF Wake, Release
<1>9. ASSUME NEW i \in Episodes,
             \/ ResumeSignal(i) \/ ResumeCommit(i) \/ Republished(i) \/ ChannelReady(i)
      PROVE  Kept
  BY <1>9 DEF ResumeSignal, ResumeCommit, Republished, ChannelReady, Release
<1>10. ASSUME NEW i \in Episodes, ResumeFails(i) \/ RestartFails(i) \/ Exhaust(i) PROVE Kept
  BY <1>1, <1>2, <1>10 DEF ResumeFails, RestartFails, Exhaust, Release
<1>11. ASSUME NEW i \in Episodes, Rejoin(i) \/ Rejoined(i) PROVE Kept
  BY <1>1, <1>3, <1>11 DEF Rejoin, Rejoined
<1>12. CASE Retire \/ DeliverOnIo \/ DeliverOnApp \/ LoseSignal \/ ServerLeave
            \/ ServerReconnectRequest \/ UNCHANGED vars
  BY <1>12 DEF Retire, DeliverOnIo, DeliverOnApp, LoseSignal, ServerLeave,
               ServerReconnectRequest, vars
<1>13. QED
  BY <1>4, <1>5, <1>6, <1>7, <1>8, <1>9, <1>10, <1>11, <1>12
  DEF Next, IoStep, EpisodeStep, AppStep, NetworkStep

\* A leave on the I/O thread, or in a room that is retired, is never in the
\* middle of the step from the teardown of a full restart to its join.
LEMMA DisconnectNowLeaves ==
  ASSUME DisconnectNow, UNCHANGED episodes, retired \/ IoFree
  PROVE  UserLeftIsDown'
<1>1. state' = "Disconnected" /\ installed' = 0 /\ ~active' /\ disabled'
  BY DEF DisconnectNow, EndSession, active, disabled
<1>2. retired => retired'
  BY DEF DisconnectNow, retired
<1>3. IoFree => \A i \in Episodes : episodes'[i].pc # "rejoin"
  BY DEF IoFree
<1>4. QED BY <1>1, <1>2, <1>3 DEF UserLeftIsDown

\* A step that leaves the room down and reconnection disabled, and takes no
\* episode to the brink of a join, is harmless.
LEMMA UserLeaveKept ==
  ASSUME UserLeftIsDown, "userLeft" \in flags,
         state' = "Disconnected", installed' = 0, active' => active,
         disabled => disabled', retired => retired',
         \A k \in Episodes : episodes'[k].pc = "rejoin" => episodes[k].pc = "rejoin"
  PROVE  UserLeftIsDown'
BY DEF UserLeftIsDown

\* The catch block of a full restart recognises that the user has left.
LEMMA CatchRestartGivesUp ==
  ASSUME UserLeaveInv, "userLeft" \in flags, NEW i \in Episodes, CatchRestart(i)
  PROVE  Return(i) /\ UNCHANGED <<state, flags>>
BY DEF CatchRestart, UserLeaveInv, UserLeftIsDown

\* No coroutine, event or failure brings back a room that the user has left.
LEMMA UserStaysAway ==
  ASSUME UserLeaveInv, "userLeft" \in flags, [Next]_vars
  PROVE  Disconnect \/ RetireDisconnect \/ UserLeftIsDown'
<1> DEFINE Kept == UserLeftIsDown'
<1>1. /\ UserLeftIsDown /\ TypeOK
      /\ state = "Disconnected" /\ installed = 0 /\ ~active /\ disabled
      /\ retired \/ \A i \in Episodes : episodes[i].pc # "rejoin"
  BY DEF UserLeaveInv, RetirementInv, UserLeftIsDown
<1>2. \A i \in Episodes : episodes[i] \in Episode
  BY <1>1 DEF TypeOK
<1>3. ASSUME state' = "Disconnected", installed' = 0, active' => active,
             disabled => disabled', retired => retired',
             \A k \in Episodes : episodes'[k].pc = "rejoin" => episodes[k].pc = "rejoin"
      PROVE  Kept
  BY <1>1, <1>3, UserLeaveKept
<1>4. ASSUME NEW i \in Episodes, Return(i), UNCHANGED <<state, installed>>,
             UNCHANGED flags \/ flags' = flags \ {"active"}
      PROVE  Kept
  <2>1. Idle.pc # "rejoin"
    BY DEF Idle
  <2>2. \A k \in Episodes : episodes'[k].pc = "rejoin" => episodes[k].pc = "rejoin"
    BY <1>1, <1>4, <2>1, SetPc DEF Return
  <2>3. QED BY <1>1, <1>3, <1>4, <2>2 DEF active, disabled, retired
<1>5. ASSUME NEW i \in Episodes, CatchRestart(i), UNCHANGED installed PROVE Kept
  BY <1>4, <1>5, CatchRestartGivesUp
<1>6. ASSUME NEW i \in Episodes, NEW tries, FullRestart(i, tries) PROVE Kept
  <2>1. /\ Return(i) /\ UNCHANGED session
        /\ UNCHANGED flags \/ flags' = flags \ {"active"}
    BY <1>1, <1>6 DEF FullRestart, Release
  <2>2. QED BY <1>4, <2>1 DEF session
<1>7. CASE Connect
  <2>1. "userLeft" \notin flags'
    BY <1>7 DEF Connect, BeginConnect
  <2>2. QED BY <2>1 DEF UserLeftIsDown
<1>8. CASE HandleEvent
  <2>1. UNCHANGED episodes
    BY <1>8 DEF HandleEvent, coroutines
  <2>2. ASSUME NEW g, \/ HandleClose(g) \/ HandleLeave(g) \/ HandleReconnectRequest(g)
                     \/ FinalizeServerDisconnect(g)
        PROVE  /\ state' = "Disconnected" /\ installed' = 0 /\ (active' => active)
               /\ (disabled => disabled') /\ (retired => retired')
    <3>1. CASE HandleClose(g)
      BY <1>1, <3>1 DEF HandleClose, MayReconnect, session, active, disabled, retired
    <3>2. CASE HandleLeave(g) \/ HandleReconnectRequest(g)
      BY <1>1, <3>2 DEF HandleLeave, BeginServerDisconnect, HandleReconnectRequest,
                        session, active, disabled, retired
    <3>3. CASE FinalizeServerDisconnect(g)
      BY <1>1, <3>3 DEF FinalizeServerDisconnect, EndSession, session, active, disabled,
                        retired
    <3>4. QED BY <2>2, <3>1, <3>2, <3>3
  <2>3. QED BY <1>3, <1>8, <2>1, <2>2 DEF HandleEvent
<1>9. CASE BeginAttempt
  <2>1. UNCHANGED <<state, installed, flags, episodes>>
    BY <1>1, <1>9 DEF BeginAttempt, StartAttempt, CanOwn, session
  <2>2. QED BY <1>1, <1>3, <2>1 DEF active, disabled, retired
<1>10. ASSUME NEW j \in joins, JoinStep(j) PROVE Kept
  <2>1. JoinFails(j)
    BY <1>1, <1>10 DEF JoinStep, JoinCommit, ConnectCommit
  <2>2. /\ state' = "Disconnected" /\ installed' = 0
        /\ UNCHANGED flags \/ flags' = flags \ {"suppress"}
    BY <1>1, <2>1 DEF JoinFails
  <2>3. \A k \in Episodes : episodes'[k].pc = "rejoin" => episodes[k].pc = "rejoin"
    <3>1. UNCHANGED episodes \/ Set(j.by, [episodes[j.by] EXCEPT !.pc = "joinFailed"])
      BY <2>1 DEF JoinFails, Resume
    <3>2. CASE j.by \in Episodes
      <4>1. [episodes[j.by] EXCEPT !.pc = "joinFailed"].pc # "rejoin"
        BY <1>2, <3>2, EpisodePcs
      <4>2. QED BY <1>1, <3>1, <4>1, SetPc
    <3>3. CASE j.by \notin Episodes
      BY <1>1, <3>1, <3>3 DEF Set, TypeOK
    <3>4. QED BY <3>2, <3>3
  <2>4. QED BY <1>1, <1>3, <2>2, <2>3 DEF active, disabled, retired
<1>11. ASSUME NEW i \in Episodes, Wake(i) PROVE Kept
  <2>1. \/ FullRestart(i, episodes[i].tries + 1)
        \/ /\ Return(i) /\ UNCHANGED session
           /\ UNCHANGED flags \/ flags' = flags \ {"active"}
    BY <1>1, <1>11 DEF Wake, Release
  <2>2. QED BY <1>4, <1>6, <2>1 DEF session
<1>12. ASSUME NEW i \in Episodes, ResumeSignal(i) \/ ResumeCommit(i) PROVE Kept
  <2>1. ResumeSignal(i)
    BY <1>1, <1>12 DEF ResumeCommit
  <2>2. UNCHANGED <<state, installed, flags>>
    BY <2>1 DEF ResumeSignal
  <2>3. \A k \in Episodes : episodes'[k].pc = "rejoin" => episodes[k].pc = "rejoin"
    <3>1. [episodes[i] EXCEPT !.pc = "ice"].pc # "rejoin"
      BY <1>2, EpisodePcs
    <3>2. QED BY <1>1, <2>1, <3>1, SetPc DEF ResumeSignal
  <2>4. QED BY <1>1, <1>3, <2>2, <2>3 DEF active, disabled, retired
<1>13. ASSUME NEW i \in Episodes, ResumeFails(i) PROVE Kept
  BY <1>6, <1>13 DEF ResumeFails
<1>14. ASSUME NEW i \in Episodes, Rejoin(i) PROVE Kept
  <2>1. ~MayConnect
    BY <1>1, <1>14 DEF Rejoin, MayConnect
  <2>2. QED BY <1>5, <1>14, <2>1 DEF Rejoin
<1>15. ASSUME NEW i \in Episodes, Rejoined(i) PROVE Kept
  <2>1. CatchRestart(i) /\ UNCHANGED installed
    BY <1>1, <1>15 DEF Rejoined
  <2>2. QED BY <1>5, <2>1
<1>16. ASSUME NEW i \in Episodes, Republished(i) \/ ChannelReady(i) PROVE Kept
  <2>1. Return(i) /\ UNCHANGED flags /\ UNCHANGED session
    BY <1>1, <1>16 DEF Republished, ChannelReady, MayFinishRestart
  <2>2. QED BY <1>4, <2>1 DEF session
<1>17. ASSUME NEW i \in Episodes, RestartFails(i) PROVE Kept
  BY <1>5, <1>17 DEF RestartFails
<1>18. ASSUME NEW i \in Episodes, Exhaust(i) PROVE Kept
  <2>1. /\ Return(i) /\ UNCHANGED session
        /\ UNCHANGED flags \/ flags' = flags \ {"active"}
    BY <1>1, <1>18 DEF Exhaust, Release
  <2>2. QED BY <1>4, <2>1 DEF session
<1>19. CASE Retire
  BY <1>1, <1>3, <1>19 DEF Retire, session, coroutines, active, disabled, retired
<1>20. CASE LoseSignal
  BY <1>1, <1>3, <1>20 DEF LoseSignal, coroutines, active, disabled, retired
<1>21. CASE DeliverOnIo \/ DeliverOnApp \/ ServerLeave \/ ServerReconnectRequest
            \/ UNCHANGED vars
  BY <1>1, <1>3, <1>21
  DEF DeliverOnIo, DeliverOnApp, ServerLeave, ServerReconnectRequest, vars, session,
      coroutines, active, disabled, retired
<1>22. QED
  BY <1>7, <1>8, <1>9, <1>10, <1>11, <1>12, <1>13, <1>14, <1>15, <1>16, <1>17,
     <1>18, <1>19, <1>20, <1>21
  DEF Next, IoStep, EpisodeStep, AppStep, NetworkStep

LEMMA UserLeaveStep ==
  ASSUME ~DisconnectAnywhere, UserLeaveInv, [Next]_vars
  PROVE  UserLeftIsDown'
<1>1. CASE Disconnect
  BY <1>1, DisconnectNowLeaves DEF Disconnect, coroutines
<1>2. CASE RetireDisconnect
  <2>1. retired
    BY <1>2 DEF RetireDisconnect, UserLeaveInv, RetirementInv, RetiredIsFlagged
  <2>2. CASE DisconnectNow
    BY <1>2, <2>1, <2>2, DisconnectNowLeaves DEF RetireDisconnect, coroutines
  <2>3. CASE UNCHANGED <<session, flags>>
    BY <1>2, <2>3
    DEF RetireDisconnect, UserLeaveInv, UserLeftIsDown, session, coroutines, active,
        disabled, retired
  <2>4. QED BY <1>2, <2>2, <2>3 DEF RetireDisconnect
<1>3. CASE "userLeft" \notin flags'
  BY <1>3 DEF UserLeftIsDown
<1>4. QED BY <1>1, <1>2, <1>3, OnlyDisconnectLeaves, UserStaysAway

\* A user who left stays away until the next ConnectAsync, when Disconnect runs
\* on the I/O thread: no join under way and no catch block of a full restart
\* takes the room back.
THEOREM UserLeaveFinality == ASSUME ~DisconnectAnywhere PROVE Spec => []UserLeaveIsFinal
<1>1. Init => UserLeaveInv
  BY InitType
  DEF Init, UserLeaveInv, UserLeftIsDown, RetirementInv, RetiredIsFlagged,
      RetirementIsFinal, retired
<1>2. UserLeaveInv /\ [Next]_vars => UserLeaveInv'
  BY TypeStep, RetirementStep, UserLeaveStep DEF UserLeaveInv, RetirementInv
<1>3. UserLeaveInv => UserLeaveIsFinal
  BY DEF UserLeaveInv, UserLeftIsDown, UserLeaveIsFinal
<1>4. QED BY <1>1, <1>2, <1>3, PTL DEF Spec

-----------------------------------------------------------------------------
(***************************************************************************)
(* No two coroutines of AttemptReconnect ever own the same session of the  *)
(* room, whatever the bounds and whether or not Disconnect runs beside the *)
(* I/O thread.  A coroutine that has taken its session down to join again  *)
(* is stale for a while and then current once more, so that ownership is   *)
(* proved from a wider notion, the claim a coroutine may still make.       *)
(* What a listener is told follows the claims: as long as a coroutine has  *)
(* the room in its hands the last word was Reconnecting.                   *)
(***************************************************************************)

WaitPcs == {"delay", "restart", "ice"}
JoinPcs == {"rejoin", "joining", "joined", "joinFailed"}
FinishPcs == {"republish", "channel"}

\* The coroutine may find its session, or what its join left, in its hands.
Claims(i) ==
  \/ episodes[i].pc \in WaitPcs /\ gen = episodes[i].gen
  \/ episodes[i].pc \in JoinPcs \cup FinishPcs /\ gen <= episodes[i].rgen + 1

\* The generations a coroutine remembers are of the past, and a coroutine about
\* to join has been overtaken by one Disconnect at most.
Agrees(e) ==
  /\ e.gen <= gen
  /\ e.pc \in JoinPcs => e.rgen = e.gen + 1
  /\ e.pc \in JoinPcs \ {"rejoin"} => e.rgen <= gen
  /\ e.pc \in FinishPcs => e.rgen = e.gen /\ e.gen > 0
  /\ e.pc = "rejoin" =>
       /\ state = "Disconnected" /\ installed = 0
       /\ gen = e.gen \/ (gen = e.rgen /\ ~active)
GenerationsAgree == \A i \in Episodes : episodes[i].pc = "none" \/ Agrees(episodes[i])

\* Joins have generations of their own; a coroutine waits for one join.
JoinsAgree ==
  /\ \A j \in joins : /\ j.gen <= gen /\ j.gen > 0
                      /\ j.by \in Episodes => episodes[j.by].pc = "joining"
  /\ \A j, k \in joins : j.gen = k.gen \/ (j.by = k.by /\ j.by \in Episodes) => j = k

\* What is true of the room while a coroutine may claim it.
ClaimShape(i) ==
  LET e == episodes[i] IN
    /\ e.pc \in WaitPcs => active
    /\ e.pc \in {"rejoin", "joinFailed"} => state = "Disconnected"
    /\ e.pc = "joining" =>
         \/ state = "Connecting" /\ \A j \in joins : j.gen = gen => j.by = i
         \/ state = "Disconnected" /\ gen > e.rgen
    /\ e.pc = "joined" =>
         /\ state \in {"Connected", "Disconnected"}
         /\ gen = e.rgen => \A j \in joins : j.gen # gen
    /\ e.pc \in FinishPcs =>
         \/ gen = e.rgen /\ active /\ installed = gen /\ \A j \in joins : j.gen # gen
         \/ gen > e.rgen /\ state = "Disconnected"
ClaimsShaped == \A i \in Episodes : Claims(i) => ClaimShape(i)

\* At most one coroutine may claim the room.
SoleClaim == \A i, k \in Episodes : Claims(i) /\ Claims(k) => i = k

ClaimInv == GenerationsAgree /\ JoinsAgree /\ ClaimsShaped /\ SoleClaim
OwnerInv == OwnershipInv /\ ClaimInv

-----------------------------------------------------------------------------
\* What the invariant says of the types, and of one coroutine.
LEMMA OwnerTypes ==
  ASSUME OwnerInv
  PROVE  /\ gen \in Nat /\ installed \in Nat /\ joins \subseteq Join
         /\ episodes \in [Episodes -> Episode] /\ Episodes \subseteq Nat \ {0}
         /\ \A j \in joins : j.gen \in Nat /\ j.by \in Nat
         /\ \A i \in Episodes :
              /\ episodes[i].gen \in Nat /\ episodes[i].rgen \in Nat
              /\ episodes[i] \in Episode
              /\ episodes[i].pc \in {"none"} \cup WaitPcs \cup JoinPcs \cup FinishPcs
<1>1. /\ gen \in Nat /\ installed \in Nat /\ joins \subseteq Join
      /\ episodes \in [Episodes -> Episode] /\ Episodes \subseteq Nat \ {0}
  BY RoomAssumption DEF OwnerInv, OwnershipInv, TypeOK
<1>2. \A j \in joins : j.gen \in Nat /\ j.by \in Nat
  BY <1>1 DEF Join
<1>3. \A e \in Episode : /\ e.gen \in Nat /\ e.rgen \in Nat
                         /\ e.pc \in {"none"} \cup WaitPcs \cup JoinPcs \cup FinishPcs
  BY DEF Episode, WaitPcs, JoinPcs, FinishPcs
<1>4. QED BY <1>1, <1>2, <1>3

\* What a write to one slot does.
LEMMA SetSlot ==
  ASSUME episodes \in [Episodes -> Episode], NEW i \in Episodes, NEW r, Set(i, r)
  PROVE  episodes'[i] = r /\ \A k \in Episodes \ {i} : episodes'[k] = episodes[k]
BY DEF Set

\* The fields a moving coroutine keeps and those it changes.
LEMMA MovedFields ==
  ASSUME NEW e \in Episode, NEW pc, NEW g, NEW r, NEW n
  PROVE  /\ LET f == [e EXCEPT !.pc = pc]
            IN f.pc = pc /\ f.gen = e.gen /\ f.rgen = e.rgen
         /\ LET f == [e EXCEPT !.pc = pc, !.gen = g]
            IN f.pc = pc /\ f.gen = g /\ f.rgen = e.rgen
         /\ LET f == [e EXCEPT !.pc = pc, !.tries = n]
            IN f.pc = pc /\ f.gen = e.gen /\ f.rgen = e.rgen
         /\ LET f == [e EXCEPT !.pc = pc, !.mode = "full", !.gen = g, !.rgen = r, !.tries = n]
            IN f.pc = pc /\ f.gen = g /\ f.rgen = r
BY DEF Episode

\* Generations only grow, and a coroutine left alone gains no claim by it.
LEMMA NoNewClaim ==
  ASSUME OwnerInv, NEW k \in Episodes, episodes'[k] = episodes[k],
         gen' \in Nat, gen' >= gen, ~Claims(k)
  PROVE  ~Claims(k)'
BY OwnerTypes DEF OwnerInv, ClaimInv, GenerationsAgree, Agrees, Claims, WaitPcs, JoinPcs,
  FinishPcs

\* A coroutine about to join has a claim.
LEMMA RejoinClaims ==
  ASSUME OwnerInv, NEW k \in Episodes, episodes[k].pc = "rejoin"
  PROVE  Claims(k)
BY OwnerTypes DEF OwnerInv, ClaimInv, GenerationsAgree, Agrees, Claims, WaitPcs, JoinPcs,
  FinishPcs

\* A step of the coroutine in slot i while no other has a claim: only its own
\* next state is to be looked at.
LEMMA SoleActor ==
  ASSUME OwnerInv, NEW i \in Episodes, NEW r, Set(i, r), gen' \in Nat, gen' >= gen,
         \A k \in Episodes \ {i} : ~Claims(k),
         r.pc = "none" \/ Agrees(r)', Claims(i)' => ClaimShape(i)'
  PROVE  GenerationsAgree' /\ ClaimsShaped' /\ SoleClaim'
<1>1. episodes'[i] = r /\ \A k \in Episodes \ {i} : episodes'[k] = episodes[k]
  BY OwnerTypes, SetSlot
<1>2. \A k \in Episodes \ {i} : ~Claims(k)'
  BY <1>1, NoNewClaim
<1>3. \A k \in Episodes \ {i} : episodes[k].pc # "rejoin"
  BY RejoinClaims
<1>4. \A k \in Episodes \ {i} : episodes'[k].pc = "none" \/ Agrees(episodes[k])'
  <2>1. SUFFICES ASSUME NEW k \in Episodes \ {i}, episodes[k].pc # "none"
        PROVE Agrees(episodes[k])'
    BY <1>1
  <2>2. Agrees(episodes[k])
    BY <2>1 DEF OwnerInv, ClaimInv, GenerationsAgree
  <2>3. episodes'[k] = episodes[k] /\ episodes[k].pc # "rejoin"
    BY <1>1, <1>3
  <2>4. episodes[k].gen \in Nat /\ episodes[k].rgen \in Nat /\ gen \in Nat
    BY OwnerTypes
  <2>5. QED BY <2>2, <2>3, <2>4 DEF Agrees
<1>5. GenerationsAgree'
  BY <1>1, <1>4 DEF GenerationsAgree
<1>6. QED BY <1>2, <1>5 DEF ClaimsShaped, SoleClaim

\* A step that leaves the joins leaves them in agreement.
LEMMA JoinsStay ==
  ASSUME OwnerInv, UNCHANGED joins, gen' \in Nat, gen' >= gen,
         \A i \in Episodes : episodes[i].pc = "joining" => episodes'[i].pc = "joining"
  PROVE  JoinsAgree'
BY OwnerTypes DEF OwnerInv, ClaimInv, JoinsAgree

\* A step that touches neither session nor coroutines nor ownership.
LEMMA SessionStays ==
  ASSUME OwnerInv, UNCHANGED <<state, gen, installed, joins, episodes>>, active' <=> active
  PROVE  ClaimInv'
BY DEF OwnerInv, ClaimInv, GenerationsAgree, Agrees, JoinsAgree, ClaimsShaped, ClaimShape,
  SoleClaim, Claims, active

\* A coroutine returns; if that gives up the ownership, it had it.
LEMMA ReturnKeeps ==
  ASSUME OwnerInv, NEW i \in Episodes, Return(i), episodes[i].pc # "joining",
         UNCHANGED <<state, gen, installed, joins>>,
         (active' <=> active) \/ Claims(i)
  PROVE  ClaimInv'
<1>1. episodes'[i] = Idle /\ \A k \in Episodes \ {i} : episodes'[k] = episodes[k]
  BY OwnerTypes, SetSlot DEF Return
<1>2. Idle.pc = "none" /\ ~Claims(i)'
  BY <1>1 DEF Idle, Claims, WaitPcs, JoinPcs, FinishPcs
<1>3. JoinsAgree'
  BY <1>1, JoinsStay, OwnerTypes
<1>4. CASE Claims(i)
  <2>1. \A k \in Episodes \ {i} : ~Claims(k)
    BY <1>4 DEF OwnerInv, ClaimInv, SoleClaim
  <2>2. GenerationsAgree' /\ ClaimsShaped' /\ SoleClaim'
    BY <1>2, <2>1, SoleActor, OwnerTypes DEF Return
  <2>3. QED BY <1>3, <2>2 DEF ClaimInv
<1>5. CASE active' <=> active
  <2>1. \A k \in Episodes : Claims(k)' => Claims(k) /\ k # i
    BY <1>1, <1>2 DEF Claims
  <2>2. SoleClaim'
    BY <2>1 DEF OwnerInv, ClaimInv, SoleClaim
  <2>3. GenerationsAgree'
    BY <1>1, <1>2, <1>5 DEF OwnerInv, ClaimInv, GenerationsAgree, Agrees
  <2>4. ClaimsShaped'
    BY <1>1, <1>5, <2>1 DEF OwnerInv, ClaimInv, ClaimsShaped, ClaimShape
  <2>5. QED BY <1>3, <2>2, <2>3, <2>4 DEF ClaimInv
<1>6. QED BY <1>4, <1>5

\* A session ends: what was claimed under its generation is claimed no more.
LEMMA SessionEnds ==
  ASSUME OwnerInv, state' = "Disconnected", gen' = gen + 1, UNCHANGED <<joins, episodes>>,
         \A k \in Episodes : episodes[k].pc = "rejoin" =>
            gen = episodes[k].gen /\ ~active' /\ installed' = 0
  PROVE  ClaimInv'
<1>1. gen' \in Nat /\ gen' >= gen
  BY OwnerTypes
<1>2. JoinsAgree'
  BY <1>1, JoinsStay
<1>3. SoleClaim'
  BY <1>1, NoNewClaim DEF OwnerInv, ClaimInv, SoleClaim
<1>4. GenerationsAgree'
  BY OwnerTypes DEF OwnerInv, ClaimInv, GenerationsAgree, Agrees, JoinPcs, FinishPcs
<1>5. ClaimsShaped'
  BY OwnerTypes DEF OwnerInv, ClaimInv, GenerationsAgree, Agrees, ClaimsShaped, ClaimShape,
    Claims, WaitPcs, JoinPcs, FinishPcs
<1>6. QED BY <1>2, <1>3, <1>4, <1>5 DEF ClaimInv

-----------------------------------------------------------------------------
\* An owner that is not stale has a claim, and every other has none.
LEMMA NotStaleClaims ==
  ASSUME OwnerInv, NEW i \in Episodes, gen = episodes[i].gen, episodes[i].pc # "none"
  PROVE  Claims(i)
BY OwnerTypes DEF OwnerInv, ClaimInv, GenerationsAgree, Agrees, Claims, WaitPcs, JoinPcs,
  FinishPcs

\* The owner of the session takes it down to join again.
LEMMA FullRestartKeeps ==
  ASSUME OwnerInv, NEW i \in Episodes, NEW tries \in Nat, FullRestart(i, tries),
         episodes[i].pc \in WaitPcs, UNCHANGED joins
  PROVE  ClaimInv'
<1>1. episodes[i].pc \notin {"none", "joining"}
  BY DEF WaitPcs
<1>2. CASE Stale(i)
  BY <1>1, <1>2, ReturnKeeps DEF FullRestart, session, active
<1>3. ~Stale(i) => Claims(i)
  BY <1>1, NotStaleClaims DEF Stale, Current, IsSignalGenerationCurrent
<1>4. CASE ~Stale(i) /\ disabled
  BY <1>1, <1>3, <1>4, ReturnKeeps DEF FullRestart, Release, session
<1>5. CASE ~Stale(i) /\ ~disabled
  <2>0. PICK r : r = [episodes[i] EXCEPT !.pc = "rejoin", !.mode = "full", !.gen = gen + 1,
                                         !.rgen = gen + 2, !.tries = tries]
    OBVIOUS
  <2>1. /\ Set(i, r) /\ state' = "Disconnected" /\ gen' = gen + 1 /\ installed' = 0
        /\ active' <=> active
    BY <1>5, <2>0 DEF FullRestart, EndSession, active
  <2>2. r.pc = "rejoin" /\ r.gen = gen + 1 /\ r.rgen = gen + 2
    <3>1. episodes[i] \in Episode
      BY OwnerTypes
    <3>2. QED BY ONLY <2>0, <3>1, MovedFields
  <2>3. gen' \in Nat /\ gen' >= gen /\ gen \in Nat
    BY <2>1, OwnerTypes
  <2>4. \A k \in Episodes \ {i} : ~Claims(k)
    BY <1>3, <1>5 DEF OwnerInv, ClaimInv, SoleClaim
  <2>5. Agrees(r)'
    BY <2>1, <2>2, <2>3 DEF Agrees, JoinPcs, FinishPcs
  <2>6. episodes'[i] = r /\ \A k \in Episodes \ {i} : episodes'[k] = episodes[k]
    BY <2>1, OwnerTypes, SetSlot
  <2>7. ClaimShape(i)'
    BY <2>1, <2>2, <2>6 DEF ClaimShape, WaitPcs, FinishPcs
  <2>8. JoinsAgree'
    BY <1>1, <2>3, <2>6, JoinsStay
  <2>9. GenerationsAgree' /\ ClaimsShaped' /\ SoleClaim'
    BY <2>1, <2>3, <2>4, <2>5, <2>7, SoleActor
  <2>10. QED BY <2>8, <2>9 DEF ClaimInv
<1>6. QED BY <1>2, <1>4, <1>5

\* The owner moves on with the session it has.
LEMMA OwnerMoves ==
  ASSUME OwnerInv, NEW i \in Episodes, NEW r, Set(i, r), Claims(i),
         episodes[i].pc # "joining",
         UNCHANGED <<gen, installed, joins>>, active, active',
         r.pc \in WaitPcs, r.gen = gen
  PROVE  ClaimInv'
<1>1. episodes'[i] = r /\ \A k \in Episodes \ {i} : episodes'[k] = episodes[k]
  BY OwnerTypes, SetSlot
<1>2. \A k \in Episodes \ {i} : ~Claims(k)
  BY DEF OwnerInv, ClaimInv, SoleClaim
<1>3. gen' \in Nat /\ gen' >= gen
  BY OwnerTypes
<1>4. Agrees(r)'
  BY <1>3 DEF Agrees, WaitPcs, JoinPcs, FinishPcs
<1>5. ClaimShape(i)'
  BY <1>1 DEF ClaimShape, WaitPcs, FinishPcs
<1>6. GenerationsAgree' /\ ClaimsShaped' /\ SoleClaim'
  BY <1>2, <1>3, <1>4, <1>5, SoleActor
<1>7. JoinsAgree'
  BY <1>1, <1>3, JoinsStay
<1>8. QED BY <1>6, <1>7 DEF ClaimInv

\* The catch block: whoever goes on had a claim.
LEMMA CatchRestartKeeps ==
  ASSUME OwnerInv, NEW i \in Episodes, CatchRestart(i),
         episodes[i].pc \in (JoinPcs \ {"joining"}) \cup FinishPcs,
         UNCHANGED <<gen, installed, joins>>
  PROVE  ClaimInv'
<1> DEFINE e == episodes[i]
           Retry(g) == /\ flags' = flags \ {"suppress"}
                       /\ Set(i, [e EXCEPT !.pc = "delay", !.gen = g])
<1>1. episodes[i].pc \notin {"none", "joining"}
  BY DEF JoinPcs, FinishPcs
<1>2. /\ gen \in Nat /\ e.gen \in Nat /\ e.rgen \in Nat
      /\ Agrees(e)
  BY <1>1, OwnerTypes DEF OwnerInv, ClaimInv, GenerationsAgree
<1>3. \/ gen = e.rgen /\ active /\ Retry(e.rgen)
      \/ gen = e.rgen + 1 /\ active /\ Retry(e.rgen + 1)
      \/ state = "Reconnecting" /\ gen = e.gen /\ Retry(e.gen)
      \/ Return(i) /\ UNCHANGED <<state, flags>>
  BY DEF CatchRestart, Current, IsSignalGenerationCurrent
<1>4. CASE Return(i) /\ UNCHANGED <<state, flags>>
  BY <1>1, <1>4, ReturnKeeps DEF active
<1>5. ASSUME NEW g, g = gen, Claims(i), active, Retry(g) PROVE ClaimInv'
  <2> DEFINE r == [e EXCEPT !.pc = "delay", !.gen = g]
  <2>1. r.pc \in WaitPcs /\ r.gen = gen
    <3>1. e \in Episode
      BY OwnerTypes
    <3>2. r.pc = "delay" /\ r.gen = g
      BY ONLY <3>1, MovedFields
    <3>3. QED BY <1>5, <3>2 DEF WaitPcs
  <2>2. Set(i, r) /\ active'
    BY <1>5 DEF active
  <2> HIDE DEF r
  <2>3. QED BY <1>1, <1>5, <2>1, <2>2, OwnerMoves
<1>6. CASE gen = e.rgen /\ active /\ Retry(e.rgen)
  <2>1. Claims(i)
    BY <1>2, <1>6 DEF Claims
  <2>2. QED BY <1>5, <1>6, <2>1
<1>7. CASE gen = e.rgen + 1 /\ active /\ Retry(e.rgen + 1)
  <2>1. Claims(i)
    BY <1>2, <1>7 DEF Claims
  <2>2. QED BY <1>5, <1>7, <2>1
<1>8. CASE state = "Reconnecting" /\ gen = e.gen /\ Retry(e.gen)
  <2>1. Claims(i)
    BY <1>1, <1>8, NotStaleClaims
  <2>2. ClaimShape(i)
    BY <2>1 DEF OwnerInv, ClaimInv, ClaimsShaped
  <2>3. active
    BY <1>8, <2>2 DEF ClaimShape, JoinPcs, FinishPcs
  <2>4. QED BY <1>5, <1>8, <2>1, <2>3
<1>9. QED BY <1>3, <1>4, <1>6, <1>7, <1>8

\* The new join has a generation nobody remembers.
LEMMA NewJoin ==
  ASSUME OwnerInv, NEW by \in Nat, BeginConnect(by),
         by \notin Episodes \/ (episodes[by].pc = "rejoin" /\ episodes'[by].pc = "joining"),
         \A k \in Episodes \ {by} : episodes'[k] = episodes[k]
  PROVE  JoinsAgree' /\ \A j \in joins' : j.gen = gen' => j.by = by
<1> DEFINE new == [gen |-> gen + 1, by |-> by, pc |-> "signal"]
<1>1. new.gen = gen + 1 /\ new.by = by
  OBVIOUS
<1>2. joins' = joins \cup {new} /\ gen' = gen + 1
  BY DEF BeginConnect
<1> HIDE DEF new
<1>3. \A j \in joins : j.by # by \/ by \notin Episodes
  BY DEF OwnerInv, ClaimInv, JoinsAgree
<1>4. \A j \in joins : j.gen \in Nat /\ j.gen <= gen /\ gen \in Nat
  BY OwnerTypes DEF OwnerInv, ClaimInv, JoinsAgree
<1>5. \A j \in joins' : j.gen <= gen' /\ j.gen > 0
  BY <1>1, <1>2, <1>4, OwnerTypes DEF OwnerInv, ClaimInv, JoinsAgree
<1>6. \A j \in joins' : j.by \in Episodes => episodes'[j.by].pc = "joining"
  BY <1>1, <1>2, <1>3 DEF OwnerInv, ClaimInv, JoinsAgree
<1>7. \A j, k \in joins' : j.gen = k.gen \/ (j.by = k.by /\ j.by \in Episodes) => j = k
  BY <1>1, <1>2, <1>3, <1>4 DEF OwnerInv, ClaimInv, JoinsAgree
<1>8. \A j \in joins' : j.gen = gen' => j.by = by
  BY <1>1, <1>2, <1>4
<1>9. QED BY <1>5, <1>6, <1>7, <1>8 DEF JoinsAgree

\* Where ConnectAsync may start, no coroutine at rest keeps a claim through it.
LEMMA ConnectEndsClaims ==
  ASSUME OwnerInv, MayConnect, gen' = gen + 1, NEW k \in Episodes,
         episodes'[k] = episodes[k],
         episodes[k].pc \notin {"rejoin", "joined", "joinFailed"}
  PROVE  ~Claims(k)'
<1>1. SUFFICES ASSUME Claims(k)' PROVE FALSE
  OBVIOUS
<1>2. gen \in Nat /\ episodes[k].gen \in Nat /\ episodes[k].rgen \in Nat
  BY OwnerTypes
<1>3. Claims(k)
  BY <1>1, <1>2, NoNewClaim
<1>4. ClaimShape(k) /\ Agrees(episodes[k])
  BY <1>3 DEF OwnerInv, ClaimInv, ClaimsShaped, GenerationsAgree, Claims, WaitPcs, JoinPcs,
    FinishPcs
<1>5. state = "Disconnected" /\ installed = 0
  BY DEF MayConnect
<1>6. CASE episodes[k].pc \in WaitPcs
  BY <1>1, <1>2, <1>4, <1>6 DEF Claims, Agrees, WaitPcs, JoinPcs, FinishPcs
<1>7. CASE episodes[k].pc = "joining"
  BY <1>1, <1>2, <1>4, <1>5, <1>7 DEF Claims, ClaimShape, WaitPcs, JoinPcs, FinishPcs
<1>8. CASE episodes[k].pc \in FinishPcs
  BY <1>1, <1>2, <1>4, <1>5, <1>8 DEF Claims, Agrees, ClaimShape, WaitPcs, JoinPcs, FinishPcs
<1>9. QED BY <1>3, <1>6, <1>7, <1>8 DEF Claims, JoinPcs

\* The application connects.
LEMMA ConnectKeeps ==
  ASSUME OwnerInv, Connect
  PROVE  ClaimInv'
<1>1. MayConnect /\ BeginConnect(0) /\ UNCHANGED episodes /\ gen' = gen + 1
  BY DEF Connect, BeginConnect
<1>2. \A k \in Episodes : episodes[k].pc \notin {"rejoin", "joined", "joinFailed"}
  BY DEF Connect, IoFree
<1>3. 0 \in Nat /\ 0 \notin Episodes
  BY OwnerTypes
<1>4. JoinsAgree'
  BY <1>1, <1>3, NewJoin
<1>5. \A k \in Episodes : ~Claims(k)'
  BY <1>1, <1>2, ConnectEndsClaims
<1>6. GenerationsAgree'
  BY <1>1, <1>2, OwnerTypes DEF OwnerInv, ClaimInv, GenerationsAgree, Agrees
<1>7. QED BY <1>4, <1>5, <1>6 DEF ClaimInv, ClaimsShaped, SoleClaim

\* A coroutine joins again.
LEMMA RejoinKeeps ==
  ASSUME OwnerInv, NEW i \in Episodes, Rejoin(i)
  PROVE  ClaimInv'
<1>1. episodes[i].pc = "rejoin"
  BY DEF Rejoin
<1>2. CASE CatchRestart(i) /\ UNCHANGED <<gen, installed, stream, joins>>
  BY <1>1, <1>2, CatchRestartKeeps DEF JoinPcs
<1>3. CASE MayConnect /\ BeginConnect(i) /\ Set(i, [episodes[i] EXCEPT !.pc = "joining"])
  <2>0. PICK r : r = [episodes[i] EXCEPT !.pc = "joining"]
    OBVIOUS
  <2>1. r.pc = "joining" /\ r.gen = episodes[i].gen /\ r.rgen = episodes[i].rgen
    <3>1. episodes[i] \in Episode
      BY OwnerTypes
    <3>2. QED BY ONLY <2>0, <3>1, MovedFields
  <2>2. Set(i, r)
    BY <1>3, <2>0
  <2>3. episodes'[i] = r /\ \A k \in Episodes \ {i} : episodes'[k] = episodes[k]
    BY <2>2, OwnerTypes, SetSlot
  <2>4. gen' = gen + 1 /\ gen' \in Nat /\ gen' >= gen /\ state' = "Connecting"
    BY <1>3, OwnerTypes DEF BeginConnect
  <2>5. JoinsAgree' /\ \A j \in joins' : j.gen = gen' => j.by = i
    BY <1>1, <1>3, <2>1, <2>3, NewJoin, OwnerTypes
  <2>6. Claims(i) /\ \A k \in Episodes \ {i} : ~Claims(k)
    BY <1>1, RejoinClaims DEF OwnerInv, ClaimInv, SoleClaim
  <2>7. Agrees(episodes[i]) /\ episodes[i].gen \in Nat /\ gen \in Nat
    BY <1>1, OwnerTypes DEF OwnerInv, ClaimInv, GenerationsAgree
  <2>8. Agrees(r)'
    BY <1>1, <2>1, <2>4, <2>7 DEF Agrees, JoinPcs, FinishPcs
  <2>9. ClaimShape(i)'
    BY <2>1, <2>3, <2>4, <2>5 DEF ClaimShape, WaitPcs, FinishPcs
  <2>10. GenerationsAgree' /\ ClaimsShaped' /\ SoleClaim'
    BY <2>2, <2>4, <2>6, <2>8, <2>9, SoleActor
  <2>11. QED BY <2>5, <2>10 DEF ClaimInv
<1>4. QED BY <1>2, <1>3 DEF Rejoin

-----------------------------------------------------------------------------
(* The joins *)

\* When the I/O thread is free, a coroutine with a claim is in one of these.
LEMMA FreeShape ==
  ASSUME OwnerInv, IoFree, NEW k \in Episodes, Claims(k)
  PROVE  \/ episodes[k].pc \in WaitPcs /\ gen = episodes[k].gen /\ active
         \/ /\ episodes[k].pc = "joining"
            /\ \/ state = "Connecting" /\ \A j \in joins : j.gen = gen => j.by = k
               \/ state = "Disconnected" /\ gen > episodes[k].rgen
         \/ /\ episodes[k].pc \in FinishPcs
            /\ \/ gen = episodes[k].rgen /\ active /\ installed = gen
                  /\ \A j \in joins : j.gen # gen
               \/ gen > episodes[k].rgen /\ state = "Disconnected"
<1>1. ClaimShape(k)
  BY DEF OwnerInv, ClaimInv, ClaimsShaped
<1>2. episodes[k].pc \notin {"rejoin", "joined", "joinFailed"}
  BY DEF IoFree
<1>3. QED BY <1>1, <1>2 DEF ClaimShape, Claims, JoinPcs

\* A session that was Connected is so no more; its generation stays.
LEMMA ConnectionDrops ==
  ASSUME OwnerInv, IoFree, state = "Connected", state' # "Connected",
         UNCHANGED <<gen, installed, joins, episodes>>, active' <=> active
  PROVE  ClaimInv'
<1>1. \A k \in Episodes : episodes[k].pc # "rejoin"
  BY DEF IoFree
<1>2. GenerationsAgree'
  BY <1>1 DEF OwnerInv, ClaimInv, GenerationsAgree, Agrees
<1>3. SoleClaim' /\ JoinsAgree'
  BY DEF OwnerInv, ClaimInv, SoleClaim, JoinsAgree, Claims
<1>4. ASSUME NEW k \in Episodes, Claims(k) PROVE ClaimShape(k)'
  BY <1>1, <1>4, FreeShape DEF ClaimShape, WaitPcs, FinishPcs, IoFree
<1>5. ClaimsShaped'
  BY <1>4 DEF ClaimsShaped, Claims
<1>6. QED BY <1>2, <1>3, <1>5 DEF ClaimInv

\* The response of the join arrives.
LEMMA JoinCommitKeeps ==
  ASSUME OwnerInv, NEW j \in joins, JoinCommit(j)
  PROVE  ClaimInv'
<1>1. PICK m : m = [j EXCEPT !.pc = "media"]
  OBVIOUS
<1>2. m.gen = j.gen /\ m.by = j.by
  <2>1. j \in Join
    BY OwnerTypes
  <2>2. QED BY <1>1, <2>1 DEF Join
<1>3. /\ joins' = (joins \ {j}) \cup {m} /\ installed' = gen /\ gen = j.gen
      /\ UNCHANGED <<state, gen, flags, episodes>> /\ state = "Connecting" /\ IoFree
  BY <1>1 DEF JoinCommit
<1>4. JoinsAgree'
  BY <1>2, <1>3 DEF OwnerInv, ClaimInv, JoinsAgree
<1>5. \A k \in Episodes : episodes[k].pc # "rejoin"
  BY <1>3 DEF IoFree
<1>6. GenerationsAgree' /\ SoleClaim'
  BY <1>3, <1>5 DEF OwnerInv, ClaimInv, GenerationsAgree, Agrees, SoleClaim, Claims
<1>7. ASSUME NEW k \in Episodes, Claims(k) PROVE ClaimShape(k)'
  BY <1>2, <1>3, <1>7, FreeShape DEF ClaimShape, WaitPcs, FinishPcs, active
<1>8. ClaimsShaped'
  BY <1>3, <1>7 DEF ClaimsShaped, Claims
<1>9. QED BY <1>4, <1>6, <1>8 DEF ClaimInv

\* The join returns to the coroutine that asked for it, whatever it brings.
LEMMA ResumeKeeps ==
  ASSUME OwnerInv, NEW j \in joins, NEW pc \in {"joined", "joinFailed"}, Resume(j, pc), IoFree,
         gen' \in Nat, gen' >= gen, active' <=> active,
         \A k \in Episodes : Claims(k) /\ Claims(k)' => ClaimShape(k)'
  PROVE  ClaimInv'
<1>1. /\ joins' = joins \ {j}
      /\ j.by \notin Episodes => UNCHANGED episodes
  BY OwnerTypes DEF Resume, Set
<1>2. j.by \in Episodes =>
        /\ Set(j.by, [episodes[j.by] EXCEPT !.pc = pc]) /\ episodes[j.by].pc = "joining"
        /\ j.by # 0
  BY OwnerTypes DEF Resume, OwnerInv, ClaimInv, JoinsAgree
<1>3. j.by \in Episodes =>
        /\ episodes'[j.by].pc = pc /\ episodes'[j.by].gen = episodes[j.by].gen
        /\ episodes'[j.by].rgen = episodes[j.by].rgen
  <2>1. SUFFICES ASSUME j.by \in Episodes
        PROVE /\ episodes'[j.by].pc = pc /\ episodes'[j.by].gen = episodes[j.by].gen
              /\ episodes'[j.by].rgen = episodes[j.by].rgen
    OBVIOUS
  <2>2. PICK r : r = [episodes[j.by] EXCEPT !.pc = pc]
    OBVIOUS
  <2>3. episodes[j.by] \in Episode
    BY <2>1, OwnerTypes
  <2>4. r.pc = pc /\ r.gen = episodes[j.by].gen /\ r.rgen = episodes[j.by].rgen
    BY ONLY <2>2, <2>3, MovedFields
  <2>5. episodes'[j.by] = r
    BY <1>2, <2>1, <2>2, OwnerTypes, SetSlot
  <2>6. QED BY <2>4, <2>5
<1>4. \A k \in Episodes : k # j.by => episodes'[k] = episodes[k]
  <2>1. CASE j.by \in Episodes
    BY <1>2, <2>1, OwnerTypes, SetSlot
  <2>2. QED BY <1>1, <2>1
<1>5. JoinsAgree'
  BY <1>1, <1>4, OwnerTypes DEF OwnerInv, ClaimInv, JoinsAgree
<1>6. \A k \in Episodes : episodes[k].pc # "rejoin"
  BY DEF IoFree
<1>7. GenerationsAgree'
  <2>1. SUFFICES ASSUME NEW k \in Episodes, episodes'[k].pc # "none"
        PROVE Agrees(episodes[k])'
    BY DEF GenerationsAgree
  <2>2. episodes[k].pc # "none" /\ Agrees(episodes[k])
    BY <1>2, <1>4, <2>1 DEF OwnerInv, ClaimInv, GenerationsAgree
  <2>3. CASE k # j.by
    BY <1>4, <1>6, <2>2, <2>3, OwnerTypes DEF Agrees
  <2>4. CASE k = j.by
    BY <1>2, <1>3, <2>2, <2>4, OwnerTypes DEF Agrees, JoinPcs, FinishPcs
  <2>5. QED BY <2>3, <2>4
<1>8. \A k \in Episodes : Claims(k)' => Claims(k)
  <2>1. SUFFICES ASSUME NEW k \in Episodes, Claims(k)' PROVE Claims(k)
    OBVIOUS
  <2>2. CASE k # j.by
    BY <1>4, <2>1, <2>2, NoNewClaim
  <2>3. CASE k = j.by
    BY <1>2, <1>3, <2>1, <2>3, OwnerTypes DEF Claims, WaitPcs, JoinPcs, FinishPcs
  <2>4. QED BY <2>2, <2>3
<1>9. ClaimsShaped' /\ SoleClaim'
  BY <1>8 DEF OwnerInv, ClaimInv, ClaimsShaped, SoleClaim
<1>10. QED BY <1>5, <1>7, <1>9 DEF ClaimInv

\* The session is Connected: its join was the last of its generation.
LEMMA ConnectCommitKeeps ==
  ASSUME OwnerInv, NEW j \in joins, ConnectCommit(j)
  PROVE  ClaimInv'
<1>1. /\ Resume(j, "joined") /\ IoFree /\ gen = j.gen /\ state = "Connecting"
      /\ state' = "Connected" /\ UNCHANGED <<gen, installed>> /\ (active' <=> active)
  BY DEF ConnectCommit, active
<1>2. gen' \in Nat /\ gen' >= gen
  BY <1>1, OwnerTypes
<1>3. joins' = joins \ {j}
  BY <1>1 DEF Resume
<1>4. \A k \in joins' : k.gen # gen
  BY <1>1, <1>3 DEF OwnerInv, ClaimInv, JoinsAgree
<1>5. ASSUME NEW k \in Episodes, Claims(k) PROVE ClaimShape(k)'
  <2>1. CASE k = j.by
    <3>1. episodes'[k].pc = "joined"
      <4>1. episodes'[k] = [episodes[k] EXCEPT !.pc = "joined"]
        BY <1>1, <2>1, OwnerTypes DEF Resume, Set
      <4>2. episodes[k] \in Episode
        BY OwnerTypes
      <4>3. QED BY ONLY <4>1, <4>2, MovedFields
    <3>2. QED BY <1>1, <1>4, <3>1 DEF ClaimShape, WaitPcs, FinishPcs
  <2>2. CASE k # j.by
    <3>1. episodes'[k] = episodes[k]
      BY <1>1, <2>2, OwnerTypes DEF Resume, Set
    <3>2. QED BY <1>1, <1>3, <1>5, <2>2, <3>1, FreeShape DEF ClaimShape, WaitPcs, FinishPcs
  <2>3. QED BY <2>1, <2>2
<1>6. QED BY <1>1, <1>2, <1>5, ResumeKeeps

\* The join fails and takes back what is its own.
LEMMA JoinFailsKeeps ==
  ASSUME OwnerInv, NEW j \in joins, JoinFails(j)
  PROVE  ClaimInv'
<1>1. /\ Resume(j, "joinFailed") /\ IoFree /\ (active' <=> active)
      /\ gen' = IF gen = j.gen THEN gen + 1 ELSE gen
      /\ installed' = IF installed = j.gen THEN 0 ELSE installed
      /\ IF j.gen \in {gen, installed} THEN state' = "Disconnected" ELSE UNCHANGED state
  BY DEF JoinFails, active
<1>2. gen' \in Nat /\ gen' >= gen /\ gen \in Nat
  BY <1>1, OwnerTypes
<1>3. joins' = joins \ {j} /\ j.gen > 0 /\ j.gen \in Nat
  BY <1>1, OwnerTypes DEF Resume, OwnerInv, ClaimInv, JoinsAgree
<1>4. ASSUME NEW k \in Episodes, Claims(k), Claims(k)' PROVE ClaimShape(k)'
  <2>1. CASE k = j.by
    <3>1. episodes'[k].pc = "joinFailed"
      <4>1. episodes'[k] = [episodes[k] EXCEPT !.pc = "joinFailed"]
        BY <1>1, <2>1, OwnerTypes DEF Resume, Set
      <4>2. episodes[k] \in Episode
        BY OwnerTypes
      <4>3. QED BY ONLY <4>1, <4>2, MovedFields
    <3>2. episodes[k].pc = "joining"
      BY <2>1 DEF OwnerInv, ClaimInv, JoinsAgree
    <3>3. state' = "Disconnected"
      <4>1. CASE state = "Connecting"
        <5>1. PICK l \in joins : l.gen = gen
          BY <4>1 DEF OwnerInv, OwnershipInv, ConnectingHasJoin
        <5>2. l.by = k
          BY <1>1, <1>4, <3>2, <4>1, <5>1, FreeShape DEF WaitPcs, FinishPcs
        <5>3. l = j
          BY <2>1, <5>2 DEF OwnerInv, ClaimInv, JoinsAgree
        <5>4. QED BY <1>1, <5>1, <5>3
      <4>2. CASE state = "Disconnected"
        BY <1>1, <4>2
      <4>3. QED BY <1>1, <1>4, <3>2, <4>1, <4>2, FreeShape DEF WaitPcs, FinishPcs
    <3>4. QED BY <3>1, <3>3 DEF ClaimShape, WaitPcs, FinishPcs
  <2>2. CASE k # j.by
    <3>1. episodes'[k] = episodes[k]
      BY <1>1, <2>2, OwnerTypes DEF Resume, Set
    <3>2. episodes[k].gen \in Nat /\ episodes[k].rgen \in Nat
      BY OwnerTypes
    <3>3. CASE j.gen = gen
      BY <1>1, <1>2, <1>4, <2>2, <3>1, <3>2, <3>3, FreeShape
        DEF Claims, ClaimShape, WaitPcs, JoinPcs, FinishPcs
    <3>4. CASE j.gen # gen /\ j.gen = installed
      <4>1. state # "Connecting"
        BY <1>3, <3>4 DEF OwnerInv, OwnershipInv, SessionOwnership
      <4>2. QED
        BY <1>1, <1>4, <3>1, <3>4, <4>1, FreeShape DEF ClaimShape, WaitPcs, FinishPcs
    <3>5. CASE j.gen \notin {gen, installed}
      BY <1>1, <1>3, <1>4, <3>1, <3>5, FreeShape DEF ClaimShape, WaitPcs, FinishPcs
    <3>6. QED BY <3>3, <3>4, <3>5
  <2>3. QED BY <2>1, <2>2
<1>5. QED BY <1>1, <1>2, <1>4, ResumeKeeps

-----------------------------------------------------------------------------
(* The coroutines *)

\* The owner writes its slot and leaves the session alone.
LEMMA OwnerWaits ==
  ASSUME OwnerInv, NEW i \in Episodes, NEW pc \in WaitPcs, NEW n,
         Set(i, [episodes[i] EXCEPT !.pc = pc, !.tries = n]),
         episodes[i].pc \in WaitPcs, gen = episodes[i].gen,
         UNCHANGED <<gen, installed, joins>>, active' <=> active
  PROVE  ClaimInv'
<1>1. PICK r : r = [episodes[i] EXCEPT !.pc = pc, !.tries = n]
  OBVIOUS
<1>2. episodes[i] \in Episode
  BY OwnerTypes
<1>3. r.pc = pc /\ r.gen = episodes[i].gen
  BY ONLY <1>1, <1>2, MovedFields
<1>4. Claims(i) /\ active /\ episodes[i].pc # "joining"
  BY DEF Claims, WaitPcs, OwnerInv, ClaimInv, ClaimsShaped, ClaimShape
<1>5. Set(i, r)
  BY <1>1
<1>6. QED BY <1>3, <1>4, <1>5, OwnerMoves

LEMMA WakeKeeps ==
  ASSUME OwnerInv, NEW i \in Episodes, Wake(i)
  PROVE  ClaimInv'
<1>1. episodes[i].pc = "delay" /\ UNCHANGED joins
  BY DEF Wake
<1>2. episodes[i].tries + 1 \in Nat
  <2>1. episodes[i].tries \in Nat
    BY OwnerTypes DEF Episode
  <2>2. QED BY <2>1
<1>3. CASE FullRestart(i, episodes[i].tries + 1)
  BY <1>1, <1>2, <1>3, FullRestartKeeps DEF WaitPcs
<1>4. CASE Return(i) /\ UNCHANGED <<session, flags>>
  BY <1>1, <1>4, ReturnKeeps DEF session, active
<1>5. CASE ~Stale(i) /\ Release(i) /\ UNCHANGED session
  BY <1>1, <1>5, ReturnKeeps, NotStaleClaims
    DEF Release, session, Stale, Current, IsSignalGenerationCurrent
<1>6. CASE /\ ~Stale(i) /\ UNCHANGED <<gen, installed, flags>>
           /\ Set(i, [episodes[i] EXCEPT !.pc = "restart", !.tries = @ + 1])
  BY <1>1, <1>6, OwnerWaits DEF WaitPcs, Stale, Current, IsSignalGenerationCurrent, active
<1>7. QED BY <1>3, <1>4, <1>5, <1>6 DEF Wake

LEMMA ResumeSignalKeeps ==
  ASSUME OwnerInv, NEW i \in Episodes, ResumeSignal(i)
  PROVE  ClaimInv'
<1>1. PICK r : r = [episodes[i] EXCEPT !.pc = "ice"]
  OBVIOUS
<1>2. episodes[i] \in Episode
  BY OwnerTypes
<1>3. r.pc = "ice" /\ r.gen = episodes[i].gen
  BY ONLY <1>1, <1>2, MovedFields
<1>4. /\ episodes[i].pc = "restart" /\ Set(i, r) /\ gen = episodes[i].gen
      /\ UNCHANGED <<gen, installed, joins>> /\ (active' <=> active)
  BY <1>1 DEF ResumeSignal, Current, IsSignalGenerationCurrent, active
<1>5. Claims(i) /\ active
  BY <1>4 DEF Claims, WaitPcs, OwnerInv, ClaimInv, ClaimsShaped, ClaimShape
<1>6. QED BY <1>3, <1>4, <1>5, OwnerMoves DEF WaitPcs

\* The owner has finished: nobody else had a claim, and now nobody has.
LEMMA OwnerReleases ==
  ASSUME OwnerInv, NEW i \in Episodes, Return(i), Claims(i), episodes[i].pc # "joining",
         gen' \in Nat, gen' >= gen, UNCHANGED joins
  PROVE  ClaimInv'
<1>1. episodes'[i] = Idle /\ \A k \in Episodes \ {i} : episodes'[k] = episodes[k]
  BY OwnerTypes, SetSlot DEF Return
<1>2. Idle.pc = "none" /\ ~Claims(i)'
  BY <1>1 DEF Idle, Claims, WaitPcs, JoinPcs, FinishPcs
<1>3. \A k \in Episodes \ {i} : ~Claims(k)
  BY DEF OwnerInv, ClaimInv, SoleClaim
<1>4. GenerationsAgree' /\ ClaimsShaped' /\ SoleClaim'
  BY <1>2, <1>3, SoleActor DEF Return
<1>5. JoinsAgree'
  BY <1>1, JoinsStay
<1>6. QED BY <1>4, <1>5 DEF ClaimInv

LEMMA ResumeCommitKeeps ==
  ASSUME OwnerInv, NEW i \in Episodes, ResumeCommit(i)
  PROVE  ClaimInv'
<1>1. episodes[i].pc = "ice" /\ gen = episodes[i].gen /\ Return(i) /\ UNCHANGED <<gen, joins>>
  BY DEF ResumeCommit, Release, Current, IsSignalGenerationCurrent
<1>2. QED BY <1>1, NotStaleClaims, OwnerReleases, OwnerTypes

LEMMA RejoinedKeeps ==
  ASSUME OwnerInv, NEW i \in Episodes, Rejoined(i)
  PROVE  ClaimInv'
<1>1. episodes[i].pc \in {"joined", "joinFailed"} /\ UNCHANGED <<gen, installed, joins>>
  BY DEF Rejoined
<1>2. CASE CatchRestart(i)
  BY <1>1, <1>2, CatchRestartKeeps DEF JoinPcs
<1>3. CASE /\ episodes[i].pc = "joined" /\ gen = episodes[i].rgen
           /\ installed = episodes[i].rgen /\ active
           /\ Set(i, [episodes[i] EXCEPT !.pc = "republish", !.gen = episodes[i].rgen])
           /\ UNCHANGED <<state, flags>>
  <2>1. PICK r : r = [episodes[i] EXCEPT !.pc = "republish", !.gen = episodes[i].rgen]
    OBVIOUS
  <2>2. episodes[i] \in Episode /\ episodes[i].rgen \in Nat /\ episodes[i].gen \in Nat
    BY OwnerTypes
  <2>3. r.pc = "republish" /\ r.gen = episodes[i].rgen /\ r.rgen = episodes[i].rgen
    BY ONLY <2>1, <2>2, MovedFields
  <2>4. episodes'[i] = r /\ (\A k \in Episodes \ {i} : episodes'[k] = episodes[k]) /\ Set(i, r)
    BY <1>3, <2>1, OwnerTypes, SetSlot
  <2>5. Claims(i) /\ Agrees(episodes[i])
    BY <1>3, <2>2 DEF Claims, JoinPcs, OwnerInv, ClaimInv, GenerationsAgree
  <2>6. \A j \in joins : j.gen # gen
    BY <1>3, <2>5 DEF OwnerInv, ClaimInv, ClaimsShaped, ClaimShape
  <2>7. \A k \in Episodes \ {i} : ~Claims(k)
    BY <2>5 DEF OwnerInv, ClaimInv, SoleClaim
  <2>8. Agrees(r)'
    BY <1>1, <1>3, <2>2, <2>3, <2>5 DEF Agrees, JoinPcs, FinishPcs
  <2>9. ClaimShape(i)'
    BY <1>1, <1>3, <2>3, <2>4, <2>6 DEF ClaimShape, WaitPcs, active
  <2>10. gen' \in Nat /\ gen' >= gen
    BY <1>1, OwnerTypes
  <2>11. GenerationsAgree' /\ ClaimsShaped' /\ SoleClaim'
    BY <2>4, <2>7, <2>8, <2>9, <2>10, SoleActor
  <2>12. JoinsAgree'
    BY <1>1, <1>3, <2>4, <2>10, JoinsStay
  <2>13. QED BY <2>11, <2>12 DEF ClaimInv
<1>4. QED BY <1>2, <1>3 DEF Rejoined, IsSignalGenerationCurrent

LEMMA RepublishedKeeps ==
  ASSUME OwnerInv, NEW i \in Episodes, Republished(i)
  PROVE  ClaimInv'
<1>1. /\ episodes[i].pc = "republish" /\ UNCHANGED <<state, gen, installed, joins>>
      /\ active' <=> active
  BY DEF Republished, session, active
<1>2. CASE Return(i)
  BY <1>1, <1>2, ReturnKeeps
<1>3. CASE MayFinishRestart(i) /\ Set(i, [episodes[i] EXCEPT !.pc = "channel"])
  <2>1. PICK r : r = [episodes[i] EXCEPT !.pc = "channel"]
    OBVIOUS
  <2>2. episodes[i] \in Episode /\ episodes[i].rgen \in Nat /\ episodes[i].gen \in Nat
    BY OwnerTypes
  <2>3. r.pc = "channel" /\ r.gen = episodes[i].gen /\ r.rgen = episodes[i].rgen
    BY ONLY <2>1, <2>2, MovedFields
  <2>4. episodes'[i] = r /\ (\A k \in Episodes \ {i} : episodes'[k] = episodes[k]) /\ Set(i, r)
    BY <1>3, <2>1, OwnerTypes, SetSlot
  <2>5. Claims(i) /\ Agrees(episodes[i])
    BY <1>1, <1>3, NotStaleClaims
      DEF MayFinishRestart, Current, IsSignalGenerationCurrent, OwnerInv, ClaimInv, GenerationsAgree
  <2>6. ClaimShape(i)
    BY <2>5 DEF OwnerInv, ClaimInv, ClaimsShaped
  <2>7. \A k \in Episodes \ {i} : ~Claims(k)
    BY <2>5 DEF OwnerInv, ClaimInv, SoleClaim
  <2>8. Agrees(r)'
    BY <1>1, <2>2, <2>3, <2>5 DEF Agrees, JoinPcs, FinishPcs
  <2>9. ClaimShape(i)'
    BY <1>1, <2>3, <2>4, <2>6 DEF ClaimShape, WaitPcs, FinishPcs
  <2>10. gen' \in Nat /\ gen' >= gen
    BY <1>1, OwnerTypes
  <2>11. GenerationsAgree' /\ ClaimsShaped' /\ SoleClaim'
    BY <2>4, <2>7, <2>8, <2>9, <2>10, SoleActor
  <2>12. JoinsAgree'
    BY <1>1, <2>4, <2>10, JoinsStay
  <2>13. QED BY <2>11, <2>12 DEF ClaimInv
<1>4. QED BY <1>2, <1>3 DEF Republished

LEMMA ChannelReadyKeeps ==
  ASSUME OwnerInv, NEW i \in Episodes, ChannelReady(i)
  PROVE  ClaimInv'
<1>1. /\ episodes[i].pc = "channel" /\ UNCHANGED <<state, gen, installed, joins>> /\ Return(i)
      /\ (active' <=> active) \/ gen = episodes[i].gen
  BY DEF ChannelReady, Release, session, active, MayFinishRestart, Current,
    IsSignalGenerationCurrent
<1>2. (active' <=> active) \/ Claims(i)
  BY <1>1, NotStaleClaims
<1>3. QED BY <1>1, <1>2, ReturnKeeps

LEMMA ExhaustKeeps ==
  ASSUME OwnerInv, NEW i \in Episodes, Exhaust(i)
  PROVE  ClaimInv'
<1>1. episodes[i].pc = "delay" /\ Return(i) /\ UNCHANGED joins
  BY DEF Exhaust, Release
<1>2. CASE UNCHANGED <<session, flags>>
  BY <1>1, <1>2, ReturnKeeps DEF session, active
<1>3. CASE ~Stale(i) /\ (UNCHANGED session \/ EndSession)
  <2>1. gen' \in Nat /\ gen' >= gen
    BY <1>3, OwnerTypes DEF session, EndSession
  <2>2. Claims(i)
    BY <1>1, <1>3, NotStaleClaims DEF Stale, Current, IsSignalGenerationCurrent
  <2>3. QED BY <1>1, <2>1, <2>2, OwnerReleases
<1>4. QED BY <1>2, <1>3 DEF Exhaust

-----------------------------------------------------------------------------
(* Events, and the application *)

\* A loss of the connection, a leave and its cleanup.
LEMMA HandleEventKeeps ==
  ASSUME OwnerInv, HandleEvent
  PROVE  ClaimInv'
<1>1. IoFree /\ UNCHANGED <<joins, episodes>>
  BY DEF HandleEvent, coroutines
<1>2. \A k \in Episodes : episodes[k].pc # "rejoin"
  BY <1>1 DEF IoFree
<1>3. ASSUME NEW g, HandleClose(g) PROVE ClaimInv'
  <2>1. CASE UNCHANGED session /\ UNCHANGED flags
    BY <1>1, <2>1, SessionStays DEF session, active
  <2>2. CASE /\ state = "Connected" /\ state' # "Connected"
             /\ UNCHANGED <<gen, installed, flags>>
    BY <1>1, <2>2, ConnectionDrops DEF active
  <2>3. CASE state' = "Disconnected" /\ gen' = gen + 1
    BY <1>1, <1>2, <2>3, SessionEnds
  <2>4. QED BY <1>3, <2>1, <2>2, <2>3 DEF HandleClose, MayReconnect, session
<1>4. ASSUME NEW g, HandleLeave(g) \/ HandleReconnectRequest(g) PROVE ClaimInv'
  <2>1. UNCHANGED session /\ (active' <=> active)
    BY <1>4 DEF HandleLeave, BeginServerDisconnect, HandleReconnectRequest, active
  <2>2. QED BY <1>1, <2>1, SessionStays DEF session
<1>5. ASSUME NEW g, FinalizeServerDisconnect(g) PROVE ClaimInv'
  <2>1. CASE UNCHANGED session /\ (active' <=> active)
    BY <1>1, <2>1, SessionStays DEF session
  <2>2. CASE EndSession
    BY <1>1, <1>2, <2>2, SessionEnds DEF EndSession
  <2>3. QED BY <1>5, <2>1, <2>2 DEF FinalizeServerDisconnect, active
<1>6. QED BY <1>3, <1>4, <1>5 DEF HandleEvent

\* A new owner is admitted only where nobody has a claim.
LEMMA BeginAttemptKeeps ==
  ASSUME OwnerInv, BeginAttempt
  PROVE  ClaimInv'
<1>1. IoFree /\ UNCHANGED <<state, gen, installed, joins>>
  BY DEF BeginAttempt, StartAttempt, session
<1>2. CASE UNCHANGED <<flags, episodes>>
  BY <1>1, <1>2, SessionStays DEF active
<1>3. CASE CanOwn(Head(inbox).gen) /\ ~(UNCHANGED <<flags, episodes>>)
  <2>1. /\ gen = Head(inbox).gen /\ installed = gen /\ state = "Reconnecting" /\ ~active
    BY <1>3 DEF CanOwn, IsSignalGenerationCurrent
  <2>2. PICK i \in Episodes, mode \in {"resume", "full"} :
          /\ episodes[i] = Idle /\ active'
          /\ Set(i, [pc |-> "delay", gen |-> gen, rgen |-> 0, mode |-> mode, tries |-> 0])
    BY <1>3, <2>1 DEF BeginAttempt, StartAttempt, active
  <2>3. PICK r : r = [pc |-> "delay", gen |-> gen, rgen |-> 0, mode |-> mode, tries |-> 0]
    OBVIOUS
  <2>4. r.pc = "delay" /\ r.gen = gen
    BY <2>3
  <2>5. Set(i, r)
    BY <2>2, <2>3
  <2>6. episodes'[i] = r /\ \A k \in Episodes \ {i} : episodes'[k] = episodes[k]
    BY <2>5, OwnerTypes, SetSlot
  <2>7. \A k \in Episodes : ~Claims(k)
    BY <1>1, <2>1, FreeShape, OwnerTypes
  <2>8. gen' \in Nat /\ gen' >= gen
    BY <1>1, OwnerTypes
  <2>9. Agrees(r)'
    BY <1>1, <2>4, <2>8 DEF Agrees, JoinPcs, FinishPcs
  <2>10. ClaimShape(i)'
    BY <2>2, <2>4, <2>6 DEF ClaimShape, FinishPcs
  <2>11. GenerationsAgree' /\ ClaimsShaped' /\ SoleClaim'
    BY <2>5, <2>7, <2>8, <2>9, <2>10, SoleActor
  <2>12. episodes[i].pc # "joining"
    BY <2>2 DEF Idle
  <2>13. JoinsAgree'
    BY <1>1, <2>6, <2>8, <2>12, JoinsStay
  <2>14. QED BY <2>11, <2>13 DEF ClaimInv
<1>4. QED BY <1>2, <1>3 DEF BeginAttempt, StartAttempt

\* Leaving: beside the I/O thread, at most one Disconnect overtakes a join.
LEMMA LeavingKeeps ==
  ASSUME OwnerInv, Disconnect \/ RetireDisconnect
  PROVE  ClaimInv'
<1>1. UNCHANGED <<joins, episodes>>
  BY DEF Disconnect, RetireDisconnect, coroutines
<1>2. CASE UNCHANGED session /\ UNCHANGED flags
  BY <1>1, <1>2, SessionStays DEF session, active
<1>3. CASE ~NothingToDisconnect /\ DisconnectNow
  <2>1. state' = "Disconnected" /\ gen' = gen + 1 /\ installed' = 0 /\ ~active'
    BY <1>3 DEF DisconnectNow, EndSession, active
  <2>2. ASSUME NEW k \in Episodes, episodes[k].pc = "rejoin" PROVE gen = episodes[k].gen
    <3>1. Agrees(episodes[k])
      BY <2>2 DEF OwnerInv, ClaimInv, GenerationsAgree
    <3>2. QED BY <1>3, <2>2, <3>1 DEF Agrees, NothingToDisconnect
  <2>3. QED BY <1>1, <2>1, <2>2, SessionEnds
<1>4. QED BY <1>2, <1>3 DEF Disconnect, RetireDisconnect

LEMMA ClaimStep ==
  ASSUME OwnerInv, [Next]_vars
  PROVE  ClaimInv'
<1>1. ASSUME NEW i \in Episodes, EpisodeStep(i) PROVE ClaimInv'
  <2>1. CASE ResumeFails(i)
    <3>1. episodes[i].pc \in WaitPcs
      BY <2>1 DEF ResumeFails, WaitPcs
    <3>2. episodes[i].tries \in Nat
      BY OwnerTypes DEF Episode
    <3>3. QED BY <2>1, <3>1, <3>2, FullRestartKeeps DEF ResumeFails
  <2>2. CASE RestartFails(i)
    BY <2>2, CatchRestartKeeps DEF RestartFails, FinishPcs
  <2>3. QED
    BY <1>1, <2>1, <2>2, WakeKeeps, ResumeSignalKeeps, ResumeCommitKeeps, RejoinKeeps,
      RejoinedKeeps, RepublishedKeeps, ChannelReadyKeeps, ExhaustKeeps DEF EpisodeStep
<1>2. ASSUME NEW j \in joins, JoinStep(j) PROVE ClaimInv'
  BY <1>2, JoinCommitKeeps, ConnectCommitKeeps, JoinFailsKeeps DEF JoinStep
<1>3. CASE \/ DeliverOnIo \/ DeliverOnApp \/ Retire \/ LoseSignal \/ ServerLeave
           \/ ServerReconnectRequest \/ UNCHANGED vars
  BY <1>3, SessionStays
    DEF DeliverOnIo, DeliverOnApp, Retire, LoseSignal, ServerLeave, ServerReconnectRequest,
      vars, session, coroutines, active
<1>4. QED
  BY <1>1, <1>2, <1>3, ConnectKeeps, HandleEventKeeps, BeginAttemptKeeps, LeavingKeeps
    DEF Next, IoStep, AppStep, NetworkStep

\* The invariant holds when the room is made, and every step keeps it.
LEMMA InitOwner == Init => OwnerInv
<1>1. SUFFICES ASSUME Init PROVE OwnerInv
  OBVIOUS
<1>2. OwnershipInv
  BY <1>1, InitType DEF Init, OwnershipInv, SessionOwnership, ConnectingHasJoin
<1>3. joins = {} /\ \A i \in Episodes : episodes[i].pc = "none"
  BY <1>1 DEF Init, Idle
<1>4. QED
  BY <1>2, <1>3 DEF OwnerInv, ClaimInv, GenerationsAgree, JoinsAgree, ClaimsShaped,
    SoleClaim, Claims, WaitPcs, JoinPcs, FinishPcs

LEMMA OwnerStep == OwnerInv /\ [Next]_vars => OwnerInv'
BY TypeStep, OwnershipStep, ClaimStep DEF OwnerInv, OwnershipInv

\* Two coroutines never reconnect the same session of the room (the admission
\* and every check of AttemptReconnect, and the catch block of its restart).
THEOREM SoleReconnectOwner == Spec => []OneReconnectOwner
<1>1. OwnerInv => OneReconnectOwner
  <2>1. SUFFICES ASSUME OwnerInv, NEW i \in Episodes, NEW k \in Episodes, i # k,
                        episodes[i].pc # "none", episodes[k].pc # "none",
                        ~Stale(i), ~Stale(k)
        PROVE FALSE
    BY DEF OneReconnectOwner
  <2>2. Claims(i) /\ Claims(k)
    BY <2>1, NotStaleClaims DEF Stale, Current, IsSignalGenerationCurrent
  <2>3. QED BY <2>1, <2>2 DEF OwnerInv, ClaimInv, SoleClaim
<1>2. QED BY <1>1, InitOwner, OwnerStep, PTL DEF Spec

-----------------------------------------------------------------------------
(* What a listener hears.  While Disconnect runs on the I/O thread, as the   *)
(* samples and DisconnectAsync have it, a delivery is admitted in the state  *)
(* it was committed in; beside that thread the order is lost, which is why   *)
(* the theorem assumes ~DisconnectAnywhere.                                  *)

Out == {"none", "Disconnected"}
suppressed == "suppress" \in flags

\* The last event of which it is certain that it will be heard.
Told == IF ioDelivery # Nothing THEN ioDelivery.kind
        ELSE IF appDelivery # Nothing THEN "Disconnected" ELSE heard

\* A delivery on its way speaks of the present session.
DeliveriesCurrent ==
  /\ ioDelivery # Nothing =>
       /\ appDelivery = Nothing
       /\ ioDelivery.gen = gen /\ ioDelivery.state = state
       /\ ioDelivery.kind = "Connected" => heard \in Out
       /\ ioDelivery.kind = "Reconnected" => heard = "Reconnecting"
  /\ appDelivery # Nothing =>
       /\ appDelivery = [kind |-> "Disconnected", gen |-> gen, state |-> "Disconnected"]
       /\ state = "Disconnected" /\ installed = 0 /\ disabled /\ ~active

\* An event of the present session finds that session installed.
EventsCurrent ==
  /\ installed <= gen
  /\ \A n \in DOMAIN inbox :
       inbox[n].gen <= gen /\ (inbox[n].gen = gen => installed = gen)

\* A join of the present session finds it Connecting, and its coroutine knows it.
JoinsOwned ==
  \A j \in joins : /\ j.gen = gen => state = "Connecting"
                   /\ j.by \in Episodes => j.gen = episodes[j.by].rgen

\* What has been told while a coroutine may claim the room: as long as it works
\* for the present session the last word is Reconnecting.
EpisodeTold(i) ==
  LET e == episodes[i] IN
  /\ e.pc \in WaitPcs /\ gen = e.gen => state = "Reconnecting"
  /\ e.pc = "rejoin" =>
       gen = e.gen /\ active /\ ~disabled /\ suppressed /\ Told = "Reconnecting"
  /\ e.pc = "joining" => \E j \in joins : j.by = i
  /\ e.pc = "joining" /\ gen = e.rgen => active /\ suppressed /\ Told = "Reconnecting"
  /\ e.pc \in {"joining", "joinFailed"} /\ gen = e.rgen + 1 /\ active => Told = "Reconnecting"
  /\ e.pc = "joined" =>
       gen = e.rgen /\ state = "Connected" /\ active /\ Told = "Reconnecting"
  /\ e.pc \in FinishPcs /\ gen = e.rgen /\ state = "Connected" => Told = "Reconnecting"
  /\ e.pc \in FinishPcs /\ gen = e.rgen + 1 => ~active

\* What has been told in each state: a room that is neither up nor reconnecting
\* has said Disconnected, or nothing, unless a coroutine is rebuilding it or the
\* server has forbidden that.
StateTold ==
  /\ state = "Reconnecting" => Told = "Reconnecting"
  /\ state = "Connecting" /\ Told \notin Out =>
       \E i \in Episodes : episodes[i].pc = "joining" /\ episodes[i].rgen = gen
  /\ state = "Disconnected" /\ installed = 0 /\ Told \notin Out =>
       /\ active
       /\ \/ disabled
          \/ \E i \in Episodes : episodes[i].pc = "rejoin"
          \/ \E i \in Episodes : episodes[i].pc = "joinFailed" /\ gen = episodes[i].rgen + 1
  /\ state = "Disconnected" /\ installed \notin {0, gen} /\ Told \notin Out =>
       /\ active /\ gen = installed + 1
       /\ \E i \in Episodes : episodes[i].pc = "joining" /\ episodes[i].rgen = installed

EpisodesTold == \A i \in Episodes : EpisodeTold(i)
ToldInv == DeliveriesCurrent /\ EventsCurrent /\ JoinsOwned /\ EpisodesTold /\ StateTold

\* Once the room is retired no listener is called any more.
ListenerInv == OwnerInv /\ (~retired => ToldInv)
HeardInv == OwnerInv /\ ToldInv /\ ~retired

-----------------------------------------------------------------------------
\* An event is committed on the I/O thread.
LEMMA TellFacts ==
  ASSUME NEW kind \in Kinds, NEW g, NEW s, Tell(kind, g, s)
  PROVE  /\ ioDelivery' # Nothing /\ Told' = kind
         /\ ioDelivery'.kind = kind /\ ioDelivery'.gen = g /\ ioDelivery'.state = s
<1>1. ioDelivery' = [kind |-> kind, gen |-> g, state |-> s]
  BY DEF Tell
<1>2. kind # "none"
  BY DEF Kinds
<1>3. ioDelivery'.kind = kind /\ ioDelivery'.gen = g /\ ioDelivery'.state = s
  BY <1>1
<1>4. ioDelivery' # Nothing
  BY <1>2, <1>3 DEF Nothing
<1>5. QED BY <1>3, <1>4 DEF Told

\* A step that commits and delivers nothing.
LEMMA NothingTold ==
  ASSUME UNCHANGED delivery
  PROVE  Told' = Told
BY DEF delivery, Told

\* The application's event is out only while the room is down for good.
LEMMA NoAppDelivery ==
  ASSUME ToldInv, state # "Disconnected" \/ installed # 0 \/ active \/ ~disabled
  PROVE  appDelivery = Nothing
BY DEF ToldInv, DeliveriesCurrent

\* What is said when nothing is on its way.
LEMMA QuietTold ==
  ASSUME ioDelivery = Nothing, appDelivery = Nothing
  PROVE  Told = heard
BY DEF Told

\* A committed event speaks of the state it was committed in.
LEMMA TellIsCurrent ==
  ASSUME NEW kind \in Kinds, Tell(kind, gen', state'), UNCHANGED <<appDelivery, heard>>,
         ioDelivery = Nothing, appDelivery = Nothing,
         kind = "Connected" => Told \in Out, kind = "Reconnected" => Told = "Reconnecting"
  PROVE  DeliveriesCurrent'
BY TellFacts, QuietTold DEF DeliveriesCurrent

\* Nothing on its way, and nothing sent.
LEMMA NoDelivery ==
  ASSUME UNCHANGED delivery, ioDelivery = Nothing, appDelivery = Nothing
  PROVE  DeliveriesCurrent'
BY DEF delivery, DeliveriesCurrent

\* The room as the deliveries see it is left alone.
LEMMA DeliveriesStay ==
  ASSUME ToldInv, UNCHANGED delivery, UNCHANGED <<state, gen, installed>>,
         active' <=> active, disabled => disabled'
  PROVE  DeliveriesCurrent'
BY DEF delivery, ToldInv, DeliveriesCurrent

\* Every event of the queue was there, or is of the installed session.
EventsFrom ==
  \A n \in DOMAIN inbox' : \/ inbox'[n].gen = installed
                           \/ \E m \in DOMAIN inbox : inbox'[n].gen = inbox[m].gen

\* Old generations are of the past, whatever is done with the queue.
LEMMA EventsStay ==
  ASSUME OwnerInv, EventsCurrent, EventsFrom, gen' \in Nat, installed' \in Nat,
         gen' >= gen, installed' <= gen', gen' = gen /\ installed = gen => installed' = gen
  PROVE  EventsCurrent'
<1>1. gen \in Nat /\ installed \in Nat
  BY OwnerTypes
<1>2. inbox \in Seq(Event)
  BY DEF OwnerInv, OwnershipInv, TypeOK
<1>3. \A n \in DOMAIN inbox : inbox[n].gen \in Nat
  <2>1. \A n \in DOMAIN inbox : inbox[n] \in Event
    BY <1>2
  <2>2. \A v \in Event : v.gen \in Nat
    BY DEF Event
  <2>3. QED BY <2>1, <2>2
<1>4. ASSUME NEW n \in DOMAIN inbox'
      PROVE  inbox'[n].gen <= gen' /\ (inbox'[n].gen = gen' => installed' = gen')
  <2>1. CASE inbox'[n].gen = installed
    BY <1>1, <2>1 DEF EventsCurrent
  <2>2. CASE \E m \in DOMAIN inbox : inbox'[n].gen = inbox[m].gen
    <3>1. PICK m \in DOMAIN inbox : inbox'[n].gen = inbox[m].gen
      BY <2>2
    <3>2. inbox[m].gen \in Nat /\ inbox[m].gen <= gen /\ (inbox[m].gen = gen => installed = gen)
      BY <1>3 DEF EventsCurrent
    <3>3. QED BY <1>1, <3>1, <3>2
  <2>3. QED BY <2>1, <2>2, <1>4 DEF EventsFrom
<1>5. QED BY <1>4 DEF EventsCurrent

\* The queue is left alone, or its head is taken and an event of that session
\* put at its end.
LEMMA QueueEvents ==
  ASSUME OwnerInv
  PROVE  /\ UNCHANGED inbox => EventsFrom
         /\ \A kind : inbox' = Append(inbox, [kind |-> kind, gen |-> installed]) => EventsFrom
         /\ inbox # <<>> /\ inbox' = Tail(inbox) => EventsFrom
         /\ \A v : inbox # <<>> /\ inbox' = Append(Tail(inbox), v) /\ v.gen = Head(inbox).gen
               => EventsFrom
<1>1. inbox \in Seq(Event)
  BY DEF OwnerInv, OwnershipInv, TypeOK
<1>2. UNCHANGED inbox => EventsFrom
  BY DEF EventsFrom
<1>3. ASSUME NEW kind, inbox' = Append(inbox, [kind |-> kind, gen |-> installed])
      PROVE  EventsFrom
  <2>1. \A n \in DOMAIN inbox' : \/ n \in DOMAIN inbox /\ inbox'[n] = inbox[n]
                                 \/ inbox'[n] = [kind |-> kind, gen |-> installed]
    BY <1>1, <1>3
  <2>2. QED BY <2>1 DEF EventsFrom
<1>4. ASSUME inbox # <<>>
      PROVE  \A n \in DOMAIN Tail(inbox) : n + 1 \in DOMAIN inbox /\ Tail(inbox)[n] = inbox[n + 1]
  BY <1>1, <1>4
<1>5. inbox # <<>> /\ inbox' = Tail(inbox) => EventsFrom
  BY <1>4 DEF EventsFrom
<1>6. ASSUME NEW v, inbox # <<>>, inbox' = Append(Tail(inbox), v), v.gen = Head(inbox).gen
      PROVE  EventsFrom
  <2>1. Tail(inbox) \in Seq(Event) /\ 1 \in DOMAIN inbox /\ Head(inbox) = inbox[1]
    BY <1>1, <1>6
  <2>2. \A n \in DOMAIN inbox' : \/ n \in DOMAIN Tail(inbox) /\ inbox'[n] = Tail(inbox)[n]
                                 \/ inbox'[n] = v
    <3>1. \A w \in Seq(Event) : \A x : \A n \in DOMAIN Append(w, x) :
            \/ n \in DOMAIN w /\ Append(w, x)[n] = w[n]
            \/ Append(w, x)[n] = x
      OBVIOUS
    <3>2. QED BY <1>6, <2>1, <3>1
  <2>3. QED BY <1>4, <1>6, <2>1, <2>2 DEF EventsFrom
<1>7. QED BY <1>2, <1>3, <1>5, <1>6

-----------------------------------------------------------------------------
\* The room as its coroutines see it, and what has been told, stay.
RoomSame ==
  /\ UNCHANGED <<state, gen, installed>> /\ Told' = Told
  /\ (active' <=> active) /\ (disabled' <=> disabled) /\ (suppressed' <=> suppressed)

\* A coroutine whose session stays as it is.
LEMMA SameTold ==
  ASSUME HeardInv, RoomSame, NEW k \in Episodes, episodes'[k] = episodes[k],
         (\E j \in joins : j.by = k) => \E j \in joins' : j.by = k
  PROVE  EpisodeTold(k)'
BY DEF HeardInv, ToldInv, EpisodesTold, EpisodeTold, RoomSame

\* A coroutine left without a claim has nothing to answer for.
LEMMA NoClaimTold ==
  ASSUME HeardInv, NEW k \in Episodes, episodes'[k] = episodes[k], gen' \in Nat, gen' >= gen,
         ~Claims(k), (\E j \in joins : j.by = k) => \E j \in joins' : j.by = k
  PROVE  EpisodeTold(k)'
<1>1. EpisodeTold(k) /\ ~Claims(k)'
  BY NoNewClaim DEF HeardInv, ToldInv, EpisodesTold
<1>2. /\ gen \in Nat /\ episodes[k].gen \in Nat /\ episodes[k].rgen \in Nat
  BY OwnerTypes DEF HeardInv
<1>3. episodes[k].pc # "rejoin"
  BY RejoinClaims DEF HeardInv
<1>4. episodes[k].pc # "joined"
  BY <1>1, <1>2 DEF EpisodeTold, Claims, JoinPcs
<1>5. ~(episodes[k].pc \in WaitPcs /\ gen' = episodes[k].gen)
  BY <1>1 DEF Claims
<1>6. episodes[k].pc \in JoinPcs \cup FinishPcs => gen' > episodes[k].rgen + 1
  BY <1>1, <1>2 DEF Claims
<1>7. QED
  BY <1>1, <1>2, <1>3, <1>4, <1>5, <1>6 DEF EpisodeTold, JoinPcs, FinishPcs

\* The sole claimant moves: only its own state is to be looked at.
LEMMA OwnerTold ==
  ASSUME HeardInv, NEW i \in Episodes, NEW r, Set(i, r), Claims(i), gen' \in Nat, gen' >= gen,
         \A j \in joins : j.by # i => j \in joins'
  PROVE  \A k \in Episodes \ {i} : EpisodeTold(k)'
<1>1. \A k \in Episodes \ {i} : episodes'[k] = episodes[k]
  BY OwnerTypes, SetSlot DEF HeardInv
<1>2. \A k \in Episodes \ {i} : ~Claims(k)
  BY DEF HeardInv, OwnerInv, ClaimInv, SoleClaim
<1>3. \A k \in Episodes \ {i} :
        (\E j \in joins : j.by = k) => \E j \in joins' : j.by = k
  OBVIOUS
<1>4. QED BY <1>1, <1>2, <1>3, NoClaimTold

\* The joins and their coroutines, when a coroutine that awaits none moves.
LEMMA JoinsOwnedStay ==
  ASSUME HeardInv, NEW i \in Episodes, NEW r, Set(i, r), episodes[i].pc # "joining",
         UNCHANGED joins, gen' \in Nat, gen' >= gen,
         gen' = gen /\ state = "Connecting" => state' = "Connecting"
  PROVE  JoinsOwned'
<1>1. \A k \in Episodes \ {i} : episodes'[k] = episodes[k]
  BY OwnerTypes, SetSlot DEF HeardInv
<1>2. \A j \in joins : /\ j.gen <= gen /\ j.gen \in Nat /\ gen \in Nat
                       /\ j.by \in Episodes => j.by # i
  BY OwnerTypes DEF HeardInv, OwnerInv, ClaimInv, JoinsAgree
<1>3. QED BY <1>1, <1>2 DEF HeardInv, ToldInv, JoinsOwned

\* The sole claimant moves and leaves joins and queue alone.
LEMMA OwnerActs ==
  ASSUME HeardInv, NEW i \in Episodes, NEW r, Set(i, r), Claims(i), episodes[i].pc # "joining",
         UNCHANGED <<joins, inbox>>, gen' \in Nat, gen' >= gen,
         installed' \in Nat, installed' <= gen',
         gen' = gen => /\ UNCHANGED installed
                       /\ state = "Connecting" => state' = "Connecting",
         EpisodeTold(i)', StateTold', DeliveriesCurrent'
  PROVE  ToldInv'
<1>1. JoinsOwned'
  BY JoinsOwnedStay
<1>2. EpisodesTold'
  BY OwnerTold DEF EpisodesTold
<1>3. EventsCurrent'
  BY QueueEvents, EventsStay DEF HeardInv, ToldInv
<1>4. QED BY <1>1, <1>2, <1>3 DEF ToldInv

\* A coroutine returns and leaves the room as it is.
LEMMA ReturnTold ==
  ASSUME HeardInv, NEW i \in Episodes, Return(i), RoomSame, UNCHANGED <<joins, inbox, delivery>>,
         episodes[i].pc \notin {"joining", "rejoin"},
         /\ episodes[i].pc = "joinFailed" /\ gen = episodes[i].rgen + 1 /\ active
         /\ state = "Disconnected" /\ installed = 0
         => disabled
  PROVE  ToldInv'
<1>1. episodes'[i] = Idle /\ \A k \in Episodes \ {i} : episodes'[k] = episodes[k]
  BY OwnerTypes, SetSlot DEF Return, HeardInv
<1>2. /\ gen \in Nat /\ installed \in Nat /\ gen' \in Nat /\ gen' >= gen /\ installed' \in Nat
      /\ installed' <= gen'
  BY OwnerTypes DEF RoomSame, HeardInv, ToldInv, EventsCurrent
<1>3. JoinsOwned'
  BY <1>2, JoinsOwnedStay DEF Return, RoomSame
<1>4. EventsCurrent'
  BY <1>2, QueueEvents, EventsStay DEF HeardInv, ToldInv, RoomSame
<1>5. DeliveriesCurrent'
  BY DeliveriesStay DEF HeardInv, RoomSame
<1>6. EpisodeTold(i)'
  BY <1>1 DEF EpisodeTold, Idle, WaitPcs, FinishPcs
<1>7. \A k \in Episodes \ {i} : EpisodeTold(k)'
  BY <1>1, SameTold
<1>8. StateTold'
  <2>1. StateTold
    BY DEF HeardInv, ToldInv
  <2>2. state = "Connecting" /\ Told \notin Out =>
          \E k \in Episodes : episodes'[k].pc = "joining" /\ episodes'[k].rgen = gen
    BY <1>1, <2>1 DEF StateTold
  <2>3. state = "Disconnected" /\ installed \notin {0, gen} /\ Told \notin Out =>
          \E k \in Episodes : episodes'[k].pc = "joining" /\ episodes'[k].rgen = installed
    BY <1>1, <2>1 DEF StateTold
  <2>4. state = "Disconnected" /\ installed = 0 /\ Told \notin Out =>
          \/ disabled
          \/ \E k \in Episodes : episodes'[k].pc = "rejoin"
          \/ \E k \in Episodes : episodes'[k].pc = "joinFailed" /\ gen = episodes'[k].rgen + 1
    BY <1>1, <2>1 DEF StateTold
  <2>5. QED BY <2>1, <2>2, <2>3, <2>4 DEF StateTold, RoomSame
<1>9. QED BY <1>3, <1>4, <1>5, <1>6, <1>7, <1>8 DEF ToldInv, EpisodesTold

\* Joins that other coroutines await are still running.
JoinsKept == \A k \in Episodes : (\E j \in joins : j.by = k) => \E j \in joins' : j.by = k

\* The session gets a new generation while no coroutine is half done: by an end
\* of the room, or silently, while the join of the session still ran or none was.
LEMMA NewGenerationTold ==
  ASSUME HeardInv, IoFree, UNCHANGED episodes, gen' = gen + 1, JoinsKept,
         \/ ~active'
         \/ Told' = Told /\ (active' => active)
            /\ \A k \in Episodes : episodes[k].pc \in FinishPcs => gen # episodes[k].rgen
  PROVE  EpisodesTold'
<1>1. SUFFICES ASSUME NEW k \in Episodes PROVE EpisodeTold(k)'
  BY DEF EpisodesTold
<1>2. /\ gen \in Nat /\ episodes[k].gen \in Nat /\ episodes[k].rgen \in Nat
      /\ episodes'[k] = episodes[k]
  BY OwnerTypes DEF HeardInv
<1>3. /\ EpisodeTold(k)
      /\ episodes[k].pc = "none" \/ Agrees(episodes[k])
      /\ episodes[k].pc \notin {"rejoin", "joined", "joinFailed"}
  BY DEF HeardInv, ToldInv, EpisodesTold, OwnerInv, ClaimInv, GenerationsAgree, IoFree
<1>4. episodes[k].pc \in WaitPcs => gen' # episodes[k].gen
  BY <1>2, <1>3 DEF Agrees, WaitPcs
<1>5. episodes[k].pc = "joining" => /\ gen' # episodes[k].rgen
                                    /\ \E j \in joins' : j.by = k
  BY <1>2, <1>3 DEF Agrees, JoinPcs, EpisodeTold, JoinsKept
<1>6. episodes[k].pc \in FinishPcs => gen' # episodes[k].rgen
  BY <1>2, <1>3 DEF Agrees, FinishPcs
<1>7. episodes[k].pc = "joining" /\ gen' = episodes[k].rgen + 1 /\ active'
        => Told' = "Reconnecting"
  BY <1>2, <1>3 DEF EpisodeTold
<1>8. episodes[k].pc \in FinishPcs /\ gen' = episodes[k].rgen + 1 => ~active'
  BY <1>2
<1>9. QED
  BY <1>2, <1>3, <1>4, <1>5, <1>6, <1>7, <1>8 DEF EpisodeTold

-----------------------------------------------------------------------------
\* Nothing of the room changes that a listener could be told of.
LEMMA QuietRoom ==
  ASSUME UNCHANGED <<state, gen, installed, flags, delivery>>
  PROVE  RoomSame
BY NothingTold DEF RoomSame, active, disabled, suppressed

\* Where the sole claimant returns, only the room is to be looked at.
LEMMA OwnerLeaves ==
  ASSUME HeardInv, NEW i \in Episodes, Return(i), Claims(i), episodes[i].pc # "joining",
         UNCHANGED <<joins, inbox>>, gen' \in Nat, gen' >= gen,
         installed' \in Nat, installed' <= gen',
         gen' = gen => /\ UNCHANGED installed
                       /\ state = "Connecting" => state' = "Connecting",
         StateTold', DeliveriesCurrent'
  PROVE  ToldInv'
<1>1. episodes'[i] = Idle
  BY OwnerTypes, SetSlot DEF Return, HeardInv
<1>2. EpisodeTold(i)'
  BY <1>1 DEF EpisodeTold, Idle, WaitPcs, FinishPcs
<1>3. QED BY <1>2, OwnerActs DEF Return

\* The claimant of a waiting coroutine: the room is Reconnecting and said so.
LEMMA WaiterTold ==
  ASSUME HeardInv, NEW i \in Episodes, episodes[i].pc \in WaitPcs, ~Stale(i)
  PROVE  /\ Claims(i) /\ gen = episodes[i].gen /\ state = "Reconnecting"
         /\ Told = "Reconnecting" /\ active /\ appDelivery = Nothing
         /\ gen \in Nat /\ installed \in Nat /\ installed <= gen
<1>1. gen = episodes[i].gen /\ episodes[i].pc # "none"
  BY DEF Stale, Current, IsSignalGenerationCurrent, WaitPcs
<1>2. Claims(i)
  BY <1>1, NotStaleClaims DEF HeardInv
<1>3. active
  BY <1>2 DEF HeardInv, OwnerInv, ClaimInv, ClaimsShaped, ClaimShape
<1>4. state = "Reconnecting"
  BY <1>1 DEF HeardInv, ToldInv, EpisodesTold, EpisodeTold
<1>5. Told = "Reconnecting"
  BY <1>4 DEF HeardInv, ToldInv, StateTold
<1>6. appDelivery = Nothing
  BY <1>4, NoAppDelivery DEF HeardInv
<1>7. gen \in Nat /\ installed \in Nat /\ installed <= gen
  BY OwnerTypes DEF HeardInv, ToldInv, EventsCurrent
<1>8. QED BY <1>1, <1>2, <1>3, <1>4, <1>5, <1>6, <1>7

\* The session goes down silently, and the coroutine is about to join.
LEMMA FullRestartTold ==
  ASSUME HeardInv, NEW i \in Episodes, NEW tries \in Nat, FullRestart(i, tries),
         episodes[i].pc \in WaitPcs, UNCHANGED <<joins, inbox, delivery>>, IoFree
  PROVE  ToldInv'
<1>1. episodes[i].pc \notin {"none", "joining", "rejoin", "joinFailed"}
  BY DEF WaitPcs
<1>2. CASE Stale(i)
  BY <1>1, <1>2, ReturnTold, QuietRoom DEF FullRestart, session
<1>3. ioDelivery = Nothing /\ Told' = Told
  BY NothingTold DEF IoFree
<1>4. CASE ~Stale(i) /\ disabled
  <2>1. Return(i) /\ UNCHANGED <<state, gen, installed>>
    BY <1>4 DEF FullRestart, Release, session
  <2>2. DeliveriesCurrent'
    BY <1>3, <1>4, WaiterTold, NoDelivery
  <2>3. StateTold'
    BY <1>3, <1>4, <2>1, WaiterTold DEF StateTold
  <2>4. QED BY <1>1, <1>4, <2>1, <2>2, <2>3, WaiterTold, OwnerLeaves
<1>5. CASE ~Stale(i) /\ ~disabled
  <2>0. PICK r : r = [episodes[i] EXCEPT !.pc = "rejoin", !.mode = "full", !.gen = gen + 1,
                                         !.rgen = gen + 2, !.tries = tries]
    OBVIOUS
  <2>1. /\ Set(i, r) /\ state' = "Disconnected" /\ gen' = gen + 1 /\ installed' = 0
        /\ active' /\ ~disabled' /\ suppressed' /\ Told' = "Reconnecting"
    BY <1>3, <1>5, <2>0, WaiterTold DEF FullRestart, EndSession, active, disabled, suppressed
  <2>2. r.pc = "rejoin" /\ r.gen = gen + 1 /\ r.rgen = gen + 2
    <3>1. episodes[i] \in Episode
      BY OwnerTypes DEF HeardInv
    <3>2. QED BY ONLY <2>0, <3>1, MovedFields
  <2>3. /\ gen' \in Nat /\ gen' >= gen /\ installed' \in Nat /\ installed' <= gen' /\ gen' # gen
        /\ gen \in Nat
    BY <1>5, <2>1, WaiterTold
  <2>4. episodes'[i] = r
    BY <2>1, OwnerTypes, SetSlot DEF HeardInv
  <2>5. EpisodeTold(i)'
    BY <2>1, <2>2, <2>4 DEF EpisodeTold, WaitPcs, FinishPcs
  <2>6. StateTold'
    BY <2>1, <2>2, <2>4 DEF StateTold
  <2>7. DeliveriesCurrent'
    BY <1>3, <1>5, WaiterTold, NoDelivery
  <2>8. QED BY <1>1, <1>5, <2>1, <2>3, <2>5, <2>6, <2>7, WaiterTold, OwnerActs
<1>6. QED BY <1>2, <1>4, <1>5

\* The owner waits on, for the same session.
LEMMA OwnerWaitsTold ==
  ASSUME HeardInv, NEW i \in Episodes, NEW r, Set(i, r), r.pc \in WaitPcs,
         episodes[i].pc \in WaitPcs, ~Stale(i), UNCHANGED <<state, gen, installed, flags>>,
         UNCHANGED <<joins, inbox, delivery>>
  PROVE  ToldInv'
<1>1. RoomSame /\ episodes[i].pc # "joining"
  BY QuietRoom DEF WaitPcs
<1>2. /\ Claims(i) /\ state = "Reconnecting" /\ Told = "Reconnecting"
      /\ gen \in Nat /\ installed \in Nat /\ installed <= gen
  BY WaiterTold
<1>3. episodes'[i] = r
  BY OwnerTypes, SetSlot DEF HeardInv
<1>4. EpisodeTold(i)'
  BY <1>2, <1>3 DEF EpisodeTold, WaitPcs, FinishPcs
<1>5. StateTold'
  BY <1>1, <1>2 DEF StateTold, RoomSame
<1>6. DeliveriesCurrent'
  BY <1>1, DeliveriesStay DEF HeardInv, RoomSame
<1>7. QED BY <1>1, <1>2, <1>4, <1>5, <1>6, OwnerActs

\* A try begins, or the coroutine finds that it has nothing to do any more.
LEMMA WakeTold ==
  ASSUME HeardInv, NEW i \in Episodes, Wake(i)
  PROVE  ToldInv'
<1>1. /\ episodes[i].pc = "delay" /\ episodes[i].pc \in WaitPcs /\ IoFree
      /\ UNCHANGED <<joins, inbox, delivery>>
  BY DEF Wake, WaitPcs
<1>2. episodes[i].tries + 1 \in Nat
  <2>1. episodes[i].tries \in Nat
    BY OwnerTypes DEF Episode, HeardInv
  <2>2. QED BY <2>1
<1>3. CASE FullRestart(i, episodes[i].tries + 1)
  BY <1>1, <1>2, <1>3, FullRestartTold
<1>4. CASE Return(i) /\ UNCHANGED <<session, flags>>
  BY <1>1, <1>4, ReturnTold, QuietRoom DEF session
<1>5. CASE ~Stale(i) /\ Release(i) /\ UNCHANGED session
  <2>1. Return(i) /\ UNCHANGED <<state, gen, installed>> /\ Told' = Told
    BY <1>1, <1>5, NothingTold DEF Release, session
  <2>2. DeliveriesCurrent'
    BY <1>1, <1>5, WaiterTold, NoDelivery DEF IoFree
  <2>3. StateTold'
    BY <1>1, <1>5, <2>1, WaiterTold DEF StateTold
  <2>4. QED BY <1>1, <1>5, <2>1, <2>2, <2>3, WaiterTold, OwnerLeaves
<1>6. CASE /\ ~Stale(i) /\ UNCHANGED <<state, gen, installed, flags>>
           /\ Set(i, [episodes[i] EXCEPT !.pc = "restart", !.tries = @ + 1])
  <2>1. PICK r : r = [episodes[i] EXCEPT !.pc = "restart", !.tries = @ + 1]
    OBVIOUS
  <2>2. r.pc = "restart"
    <3>1. episodes[i] \in Episode
      BY OwnerTypes DEF HeardInv
    <3>2. QED BY ONLY <2>1, <3>1 DEF Episode
  <2>3. Set(i, r) /\ r.pc \in WaitPcs
    BY <1>6, <2>1, <2>2 DEF WaitPcs
  <2>4. QED BY <1>1, <1>6, <2>3, OwnerWaitsTold
<1>7. QED BY <1>3, <1>4, <1>5, <1>6 DEF Wake

\* The old session is signalled again.
LEMMA ResumeSignalTold ==
  ASSUME HeardInv, NEW i \in Episodes, ResumeSignal(i)
  PROVE  ToldInv'
<1>1. PICK r : r = [episodes[i] EXCEPT !.pc = "ice"]
  OBVIOUS
<1>2. episodes[i] \in Episode
  BY OwnerTypes DEF HeardInv
<1>3. r.pc = "ice"
  BY ONLY <1>1, <1>2, MovedFields
<1>4. /\ episodes[i].pc = "restart" /\ Set(i, r) /\ ~Stale(i)
      /\ UNCHANGED <<state, gen, installed, flags>> /\ UNCHANGED <<joins, inbox, delivery>>
  BY <1>1 DEF ResumeSignal, Stale
<1>5. QED BY <1>3, <1>4, OwnerWaitsTold DEF WaitPcs

\* The old session is up again: that ends a Reconnecting.
LEMMA ResumeCommitTold ==
  ASSUME HeardInv, NEW i \in Episodes, ResumeCommit(i)
  PROVE  ToldInv'
<1>1. /\ episodes[i].pc = "ice" /\ ~Stale(i) /\ Return(i) /\ state' = "Connected"
      /\ Tell("Reconnected", gen', state') /\ ioDelivery = Nothing
      /\ UNCHANGED <<gen, installed>> /\ UNCHANGED <<joins, inbox, appDelivery, heard>>
  BY DEF ResumeCommit, Release, Stale, IoFree
<1>2. episodes[i].pc \in WaitPcs /\ "Reconnected" \in Kinds
  BY <1>1 DEF WaitPcs, Kinds
<1>3. /\ Claims(i) /\ Told = "Reconnecting" /\ appDelivery = Nothing /\ state = "Reconnecting"
      /\ gen \in Nat /\ installed \in Nat /\ installed <= gen
  BY <1>1, <1>2, WaiterTold
<1>4. DeliveriesCurrent'
  BY <1>1, <1>2, <1>3, TellIsCurrent
<1>5. StateTold'
  BY <1>1 DEF StateTold
<1>6. QED BY <1>1, <1>3, <1>4, <1>5, OwnerLeaves

\* The recovery is given up, and the listener told.
LEMMA ExhaustTold ==
  ASSUME HeardInv, NEW i \in Episodes, Exhaust(i)
  PROVE  ToldInv'
<1>1. /\ episodes[i].pc = "delay" /\ episodes[i].pc \in WaitPcs /\ IoFree /\ Return(i)
      /\ UNCHANGED <<joins, inbox, appDelivery, heard>> /\ episodes[i].pc # "joining"
  BY DEF Exhaust, WaitPcs, Release
<1>2. CASE UNCHANGED <<session, flags, ioDelivery>>
  BY <1>1, <1>2, ReturnTold, QuietRoom DEF session, delivery
<1>3. CASE ~Stale(i) /\ UNCHANGED <<session, ioDelivery>>
  <2>1. UNCHANGED <<state, gen, installed>> /\ Told' = Told /\ UNCHANGED delivery
    BY <1>1, <1>3, NothingTold DEF session, delivery
  <2>2. DeliveriesCurrent'
    BY <1>1, <1>3, <2>1, WaiterTold, NoDelivery DEF IoFree
  <2>3. StateTold'
    BY <1>1, <1>3, <2>1, WaiterTold DEF StateTold
  <2>4. QED BY <1>1, <1>3, <2>1, <2>2, <2>3, WaiterTold, OwnerLeaves
<1>4. CASE ~Stale(i) /\ EndSession /\ Tell("Disconnected", gen + 1, "Disconnected")
  <2>1. /\ state' = "Disconnected" /\ gen' = gen + 1 /\ installed' = 0
        /\ Tell("Disconnected", gen', state') /\ ioDelivery = Nothing /\ "Disconnected" \in Kinds
    BY <1>1, <1>4 DEF EndSession, IoFree, Kinds
  <2>2. /\ Claims(i) /\ appDelivery = Nothing /\ gen \in Nat
        /\ gen' \in Nat /\ gen' >= gen /\ installed' \in Nat /\ installed' <= gen' /\ gen' # gen
    BY <1>1, <1>4, <2>1, WaiterTold
  <2>3. DeliveriesCurrent'
    BY <1>1, <2>1, <2>2, TellIsCurrent
  <2>4. Told' = "Disconnected"
    BY <2>1, TellFacts
  <2>5. StateTold'
    BY <2>1, <2>4 DEF StateTold, Out
  <2>6. QED BY <1>1, <2>2, <2>3, <2>5, OwnerLeaves
<1>5. QED BY <1>2, <1>3, <1>4 DEF Exhaust

-----------------------------------------------------------------------------
\* A claimant that goes on reconnects a room that was told so.
LEMMA RetryTold ==
  ASSUME HeardInv, NEW i \in Episodes, NEW g,
         Set(i, [episodes[i] EXCEPT !.pc = "delay", !.gen = g]), g = gen,
         Claims(i), episodes[i].pc # "joining", active, Told = "Reconnecting",
         state' = "Reconnecting", state # "Connecting", flags' = flags \ {"suppress"},
         UNCHANGED <<gen, installed, joins, inbox, delivery>>, ioDelivery = Nothing
  PROVE  ToldInv'
<1>1. PICK r : r = [episodes[i] EXCEPT !.pc = "delay", !.gen = g]
  OBVIOUS
<1>2. episodes[i] \in Episode
  BY OwnerTypes DEF HeardInv
<1>3. r.pc = "delay" /\ r.gen = g
  BY ONLY <1>1, <1>2, MovedFields
<1>4. Set(i, r) /\ episodes'[i] = r
  BY <1>1, OwnerTypes, SetSlot DEF HeardInv
<1>5. appDelivery = Nothing /\ Told' = Told /\ UNCHANGED delivery
  BY NoAppDelivery, NothingTold DEF HeardInv
<1>6. DeliveriesCurrent'
  BY <1>5, NoDelivery
<1>7. EpisodeTold(i)'
  BY <1>3, <1>4 DEF EpisodeTold, FinishPcs
<1>8. StateTold'
  BY <1>5 DEF StateTold
<1>9. gen' \in Nat /\ gen' >= gen /\ installed' \in Nat /\ installed' <= gen'
  BY OwnerTypes DEF HeardInv, ToldInv, EventsCurrent
<1>10. QED BY <1>4, <1>6, <1>7, <1>8, <1>9, OwnerActs

\* The catch block.
LEMMA CatchRestartTold ==
  ASSUME HeardInv, NEW i \in Episodes, CatchRestart(i),
         episodes[i].pc \in {"joined", "joinFailed"} \cup FinishPcs,
         UNCHANGED <<gen, installed, joins, inbox, delivery>>, ioDelivery = Nothing
  PROVE  ToldInv'
<1> DEFINE e == episodes[i]
           Retry(g) == /\ state' = "Reconnecting" /\ flags' = flags \ {"suppress"}
                       /\ Set(i, [e EXCEPT !.pc = "delay", !.gen = g])
           First == gen = e.rgen /\ installed = e.rgen /\ state = "Connected" /\ ~disabled /\ active
           Second == gen = e.rgen + 1 /\ installed = 0 /\ state = "Disconnected"
                     /\ ~disabled /\ active
           Third == state = "Reconnecting" /\ gen = e.gen
<1>1. episodes[i].pc \notin {"none", "joining", "rejoin"} /\ e.pc \in JoinPcs \cup FinishPcs
  BY DEF FinishPcs, JoinPcs
<1>2. /\ gen \in Nat /\ e.gen \in Nat /\ e.rgen \in Nat
      /\ Agrees(e) /\ EpisodeTold(i)
  BY <1>1, OwnerTypes
    DEF HeardInv, OwnerInv, ClaimInv, GenerationsAgree, ToldInv, EpisodesTold
<1>3. \/ First /\ Retry(e.rgen)
      \/ Second /\ Retry(e.rgen + 1)
      \/ Third /\ Retry(e.gen)
      \/ ~Second /\ Return(i) /\ UNCHANGED <<state, flags>>
  BY DEF CatchRestart, Current, IsSignalGenerationCurrent
<1>4. CASE First /\ Retry(e.rgen)
  <2>1. Claims(i)
    BY <1>1, <1>2, <1>4 DEF Claims
  <2>2. e.pc # "joinFailed"
    BY <1>4, <2>1 DEF HeardInv, OwnerInv, ClaimInv, ClaimsShaped, ClaimShape
  <2>3. Told = "Reconnecting"
    BY <1>2, <1>4, <2>2 DEF EpisodeTold
  <2>4. gen = e.rgen /\ active /\ state # "Connecting"
    BY <1>4
  <2>5. QED BY <1>1, <1>4, <2>1, <2>3, <2>4, RetryTold
<1>5. CASE Second /\ Retry(e.rgen + 1)
  <2>1. Claims(i)
    BY <1>1, <1>2, <1>5 DEF Claims
  <2>2. e.pc \notin FinishPcs /\ e.pc # "joined"
    BY <1>2, <1>5 DEF EpisodeTold
  <2>3. Told = "Reconnecting"
    BY <1>2, <1>5, <2>2 DEF EpisodeTold
  <2>4. gen = e.rgen + 1 /\ active /\ state # "Connecting"
    BY <1>5
  <2>5. QED BY <1>1, <1>5, <2>1, <2>3, <2>4, RetryTold
<1>6. CASE Third /\ Retry(e.gen)
  <2>1. Claims(i)
    BY <1>1, <1>6, NotStaleClaims DEF HeardInv
  <2>2. active /\ Told = "Reconnecting"
    BY <1>1, <1>6, <2>1
      DEF HeardInv, OwnerInv, ClaimInv, ClaimsShaped, ClaimShape, JoinPcs, FinishPcs,
        ToldInv, StateTold
  <2>3. gen = e.gen /\ state # "Connecting"
    BY <1>6
  <2>4. QED BY <1>1, <1>6, <2>1, <2>2, <2>3, RetryTold
<1>7. CASE ~Second /\ Return(i) /\ UNCHANGED <<state, flags>>
  <2>1. RoomSame
    BY <1>7, QuietRoom
  <2>2. e.pc = "joinFailed" /\ gen = e.rgen + 1 /\ active /\ state = "Disconnected"
          /\ installed = 0 => disabled
    BY <1>7
  <2>3. QED BY <1>1, <1>7, <2>1, <2>2, ReturnTold
<1>8. QED BY <1>3, <1>4, <1>5, <1>6, <1>7

\* ConnectAsync begins on behalf of the application or of a coroutine.
LEMMA NewJoinOwned ==
  ASSUME HeardInv, NEW by \in Nat, BeginConnect(by),
         by \in Episodes => episodes[by].pc # "joining" /\ episodes'[by].rgen = gen + 1,
         \A k \in Episodes \ {by} : episodes'[k] = episodes[k]
  PROVE  JoinsOwned' /\ joins \subseteq joins' /\ \E j \in joins' : j.by = by
<1> DEFINE new == [gen |-> gen + 1, by |-> by, pc |-> "signal"]
<1>1. new.gen = gen + 1 /\ new.by = by
  OBVIOUS
<1>2. joins' = joins \cup {new} /\ gen' = gen + 1 /\ state' = "Connecting"
  BY DEF BeginConnect
<1> HIDE DEF new
<1>3. \A j \in joins : /\ j.gen \in Nat /\ j.gen <= gen /\ gen \in Nat
                       /\ j.by \in Episodes => j.by # by /\ j.gen = episodes[j.by].rgen
  BY OwnerTypes DEF HeardInv, OwnerInv, ClaimInv, JoinsAgree, ToldInv, JoinsOwned
<1>4. JoinsOwned'
  BY <1>1, <1>2, <1>3 DEF JoinsOwned
<1>5. QED BY <1>1, <1>2, <1>4

\* The coroutine joins again, in silence: nothing has come between.
LEMMA RejoinTold ==
  ASSUME HeardInv, NEW i \in Episodes, Rejoin(i)
  PROVE  ToldInv'
<1>1. episodes[i].pc = "rejoin" /\ ioDelivery = Nothing /\ UNCHANGED <<inbox, delivery>>
  BY DEF Rejoin
<1>2. /\ Claims(i) /\ Agrees(episodes[i]) /\ EpisodeTold(i)
      /\ gen \in Nat /\ episodes[i].gen \in Nat /\ episodes[i].rgen \in Nat
      /\ i \in Nat /\ i # 0
  BY <1>1, RejoinClaims, OwnerTypes
    DEF HeardInv, OwnerInv, ClaimInv, GenerationsAgree, ToldInv, EpisodesTold
<1>3. /\ state = "Disconnected" /\ installed = 0 /\ gen = episodes[i].gen
      /\ active /\ ~disabled /\ suppressed /\ Told = "Reconnecting"
      /\ episodes[i].rgen = gen + 1
  BY <1>1, <1>2 DEF Agrees, EpisodeTold, JoinPcs
<1>4. MayConnect
  BY <1>3 DEF MayConnect, HeardInv
<1>5. BeginConnect(i) /\ Set(i, [episodes[i] EXCEPT !.pc = "joining"])
  BY <1>4 DEF Rejoin
<1>6. PICK r : r = [episodes[i] EXCEPT !.pc = "joining"]
  OBVIOUS
<1>7. r.pc = "joining" /\ r.gen = episodes[i].gen /\ r.rgen = episodes[i].rgen
  <2>1. episodes[i] \in Episode
    BY OwnerTypes DEF HeardInv
  <2>2. QED BY ONLY <1>6, <2>1, MovedFields
<1>8. Set(i, r) /\ episodes'[i] = r /\ \A k \in Episodes \ {i} : episodes'[k] = episodes[k]
  BY <1>5, <1>6, OwnerTypes, SetSlot DEF HeardInv
<1>9. /\ state' = "Connecting" /\ gen' = gen + 1 /\ gen' \in Nat /\ gen' >= gen
      /\ installed' = 0 /\ active' /\ suppressed' /\ Told' = "Reconnecting"
  BY <1>1, <1>2, <1>3, <1>5, NothingTold DEF BeginConnect, active, suppressed
<1>10. JoinsOwned' /\ joins \subseteq joins' /\ \E j \in joins' : j.by = i
  BY <1>1, <1>2, <1>3, <1>5, <1>7, <1>8, NewJoinOwned
<1>11. EpisodeTold(i)'
  BY <1>7, <1>8, <1>9, <1>10 DEF EpisodeTold, WaitPcs, FinishPcs
<1>12. EpisodesTold'
  BY <1>2, <1>8, <1>9, <1>10, <1>11, OwnerTold DEF EpisodesTold
<1>13. StateTold'
  BY <1>3, <1>7, <1>8, <1>9 DEF StateTold
<1>14. DeliveriesCurrent'
  <2>1. appDelivery = Nothing
    BY <1>3, NoAppDelivery DEF HeardInv
  <2>2. QED BY <1>1, <2>1, NoDelivery
<1>15. EventsCurrent'
  BY <1>1, <1>2, <1>9, QueueEvents, EventsStay DEF HeardInv, ToldInv
<1>16. QED BY <1>10, <1>12, <1>13, <1>14, <1>15 DEF ToldInv

\* The join returned to the coroutine.
LEMMA RejoinedTold ==
  ASSUME HeardInv, NEW i \in Episodes, Rejoined(i)
  PROVE  ToldInv'
<1>1. /\ episodes[i].pc \in {"joined", "joinFailed"} /\ ioDelivery = Nothing
      /\ UNCHANGED <<gen, installed, joins, inbox, delivery>>
  BY DEF Rejoined
<1>2. CASE CatchRestart(i)
  BY <1>1, <1>2, CatchRestartTold
<1>3. CASE /\ episodes[i].pc = "joined"
           /\ Set(i, [episodes[i] EXCEPT !.pc = "republish", !.gen = episodes[i].rgen])
           /\ UNCHANGED <<state, flags>>
  <2>1. PICK r : r = [episodes[i] EXCEPT !.pc = "republish", !.gen = episodes[i].rgen]
    OBVIOUS
  <2>2. /\ episodes[i] \in Episode /\ episodes[i].rgen \in Nat
        /\ gen \in Nat /\ installed \in Nat /\ installed <= gen /\ EpisodeTold(i)
    BY OwnerTypes DEF HeardInv, ToldInv, EventsCurrent, EpisodesTold
  <2>3. r.pc = "republish" /\ r.rgen = episodes[i].rgen
    BY ONLY <2>1, <2>2, MovedFields
  <2>4. Set(i, r) /\ episodes'[i] = r
    BY <1>3, <2>1, OwnerTypes, SetSlot DEF HeardInv
  <2>5. RoomSame
    BY <1>1, <1>3, QuietRoom
  <2>6. gen = episodes[i].rgen /\ state = "Connected" /\ Told = "Reconnecting"
    BY <1>3, <2>2 DEF EpisodeTold
  <2>7. Claims(i)
    BY <1>3, <2>2, <2>6 DEF Claims, JoinPcs
  <2>8. EpisodeTold(i)'
    BY <1>1, <2>2, <2>3, <2>4, <2>5, <2>6 DEF EpisodeTold, RoomSame, WaitPcs
  <2>9. StateTold'
    BY <1>3, <2>6 DEF StateTold
  <2>10. DeliveriesCurrent'
    BY <1>1, <2>5, DeliveriesStay DEF HeardInv, RoomSame
  <2>11. QED BY <1>1, <1>3, <2>2, <2>4, <2>5, <2>7, <2>8, <2>9, <2>10, OwnerActs DEF RoomSame
<1>4. QED BY <1>2, <1>3 DEF Rejoined

\* What the last checks of a full restart find of the room.
LEMMA FinisherTold ==
  ASSUME HeardInv, NEW i \in Episodes, episodes[i].pc \in FinishPcs, MayFinishRestart(i)
  PROVE  /\ Claims(i) /\ gen = episodes[i].rgen /\ state = "Connected"
         /\ Told = "Reconnecting" /\ active /\ appDelivery = Nothing
         /\ gen \in Nat /\ installed \in Nat /\ installed <= gen
<1>1. gen = episodes[i].gen /\ state = "Connected" /\ active /\ episodes[i].pc # "none"
  BY DEF MayFinishRestart, Current, IsSignalGenerationCurrent, FinishPcs
<1>2. Claims(i)
  BY <1>1, NotStaleClaims DEF HeardInv
<1>3. gen = episodes[i].rgen
  BY <1>1 DEF HeardInv, OwnerInv, ClaimInv, GenerationsAgree, Agrees
<1>4. Told = "Reconnecting"
  BY <1>1, <1>3 DEF HeardInv, ToldInv, EpisodesTold, EpisodeTold
<1>5. appDelivery = Nothing
  BY <1>1, NoAppDelivery DEF HeardInv
<1>6. gen \in Nat /\ installed \in Nat /\ installed <= gen
  BY OwnerTypes DEF HeardInv, ToldInv, EventsCurrent
<1>7. QED BY <1>1, <1>2, <1>3, <1>4, <1>5, <1>6

\* The tracks are published again, or the session is gone.
LEMMA RepublishedTold ==
  ASSUME HeardInv, NEW i \in Episodes, Republished(i)
  PROVE  ToldInv'
<1>1. /\ episodes[i].pc = "republish" /\ UNCHANGED <<state, gen, installed, flags>>
      /\ UNCHANGED <<joins, inbox, delivery>> /\ episodes[i].pc \in FinishPcs
  BY DEF Republished, session, FinishPcs
<1>2. RoomSame
  BY <1>1, QuietRoom
<1>3. CASE Return(i)
  BY <1>1, <1>2, <1>3, ReturnTold
<1>4. CASE MayFinishRestart(i) /\ Set(i, [episodes[i] EXCEPT !.pc = "channel"])
  <2>1. PICK r : r = [episodes[i] EXCEPT !.pc = "channel"]
    OBVIOUS
  <2>2. episodes[i] \in Episode
    BY OwnerTypes DEF HeardInv
  <2>3. r.pc = "channel" /\ r.rgen = episodes[i].rgen
    BY ONLY <2>1, <2>2, MovedFields
  <2>4. Set(i, r) /\ episodes'[i] = r
    BY <1>4, <2>1, OwnerTypes, SetSlot DEF HeardInv
  <2>5. /\ Claims(i) /\ gen = episodes[i].rgen /\ state = "Connected" /\ Told = "Reconnecting"
        /\ gen \in Nat /\ installed \in Nat /\ installed <= gen
    BY <1>1, <1>4, FinisherTold
  <2>6. EpisodeTold(i)'
    BY <1>1, <1>2, <2>3, <2>4, <2>5 DEF EpisodeTold, RoomSame, WaitPcs
  <2>7. StateTold'
    BY <1>1, <2>5 DEF StateTold
  <2>8. DeliveriesCurrent'
    BY <1>1, <1>2, DeliveriesStay DEF HeardInv, RoomSame
  <2>9. QED BY <1>1, <2>4, <2>5, <2>6, <2>7, <2>8, OwnerActs
<1>5. QED BY <1>3, <1>4 DEF Republished

\* The rebuilt session is complete: that ends a Reconnecting.
LEMMA ChannelReadyTold ==
  ASSUME HeardInv, NEW i \in Episodes, ChannelReady(i)
  PROVE  ToldInv'
<1>1. /\ episodes[i].pc = "channel" /\ UNCHANGED <<state, gen, installed>> /\ IoFree /\ Return(i)
      /\ UNCHANGED <<joins, inbox, appDelivery, heard>> /\ episodes[i].pc \in FinishPcs
  BY DEF ChannelReady, session, FinishPcs, Release
<1>2. CASE UNCHANGED <<flags, ioDelivery>>
  <2>1. RoomSame /\ UNCHANGED delivery
    BY <1>1, <1>2, QuietRoom DEF delivery
  <2>2. QED BY <1>1, <2>1, ReturnTold
<1>3. CASE MayFinishRestart(i) /\ Tell("Reconnected", gen, "Connected")
  <2>1. /\ Claims(i) /\ gen = episodes[i].rgen /\ state = "Connected" /\ Told = "Reconnecting"
        /\ gen \in Nat /\ installed \in Nat /\ installed <= gen /\ appDelivery = Nothing
    BY <1>1, <1>3, FinisherTold
  <2>2. Tell("Reconnected", gen', state') /\ "Reconnected" \in Kinds /\ ioDelivery = Nothing
    BY <1>1, <1>3, <2>1 DEF Kinds, IoFree
  <2>3. DeliveriesCurrent'
    BY <1>1, <2>1, <2>2, TellIsCurrent
  <2>4. StateTold'
    BY <1>1, <2>1 DEF StateTold
  <2>5. QED BY <1>1, <2>1, <2>3, <2>4, OwnerLeaves
<1>4. QED BY <1>2, <1>3 DEF ChannelReady

-----------------------------------------------------------------------------
\* The join of the present session that a coroutine awaits is the only one.
LEMMA AwaitedJoin ==
  ASSUME HeardInv, NEW j \in joins, NEW k \in Episodes, episodes[k].pc = "joining",
         episodes[k].rgen = j.gen
  PROVE  j.by = k
<1>1. PICK l \in joins : l.by = k
  BY DEF HeardInv, ToldInv, EpisodesTold, EpisodeTold
<1>2. l.gen = j.gen
  BY <1>1 DEF HeardInv, ToldInv, JoinsOwned
<1>3. QED BY <1>1, <1>2 DEF HeardInv, OwnerInv, ClaimInv, JoinsAgree

\* The response of the join arrives.
LEMMA JoinCommitTold ==
  ASSUME HeardInv, NEW j \in joins, JoinCommit(j)
  PROVE  ToldInv'
<1>1. PICK m : m = [j EXCEPT !.pc = "media"]
  OBVIOUS
<1>2. m.gen = j.gen /\ m.by = j.by
  <2>1. j \in Join
    BY OwnerTypes DEF HeardInv
  <2>2. QED BY <1>1, <2>1 DEF Join
<1>3. /\ UNCHANGED <<state, gen, flags, episodes, inbox, delivery>> /\ gen = j.gen
      /\ state = "Connecting" /\ installed = 0 /\ installed' = gen
      /\ joins' = (joins \ {j}) \cup {m}
  BY <1>1 DEF JoinCommit
<1>4. j.gen > 0 /\ gen \in Nat
  BY OwnerTypes DEF HeardInv, OwnerInv, ClaimInv, JoinsAgree
<1>5. /\ (active' <=> active) /\ (disabled' <=> disabled) /\ (suppressed' <=> suppressed)
      /\ Told' = Told
  BY <1>3, NothingTold DEF active, disabled, suppressed
<1>6. JoinsOwned'
  BY <1>2, <1>3 DEF HeardInv, ToldInv, JoinsOwned
<1>7. EventsCurrent'
  BY <1>3, <1>4, QueueEvents, EventsStay DEF HeardInv, ToldInv
<1>8. DeliveriesCurrent'
  <2>1. appDelivery = Nothing /\ ioDelivery = Nothing
    BY <1>3, NoAppDelivery DEF HeardInv, JoinCommit, IoFree
  <2>2. QED BY <1>3, <2>1, NoDelivery
<1>9. StateTold'
  BY <1>3, <1>5 DEF StateTold, HeardInv, ToldInv
<1>10. EpisodesTold'
  <2>1. \A k \in Episodes : (\E l \in joins : l.by = k) => \E l \in joins' : l.by = k
    BY <1>2, <1>3
  <2>2. QED BY <1>3, <1>5, <2>1 DEF HeardInv, ToldInv, EpisodesTold, EpisodeTold
<1>11. QED BY <1>6, <1>7, <1>8, <1>9, <1>10 DEF ToldInv

\* What the return of a join does to the joins and to their coroutines.
LEMMA ResumeSlots ==
  ASSUME HeardInv, NEW j \in joins, NEW pc \in {"joined", "joinFailed"}, Resume(j, pc)
  PROVE  /\ joins' = joins \ {j}
         /\ \A k \in Episodes : k # j.by => episodes'[k] = episodes[k]
         /\ j.by \in Episodes =>
              /\ episodes[j.by].pc = "joining" /\ episodes[j.by].rgen = j.gen
              /\ episodes'[j.by].pc = pc /\ episodes'[j.by].gen = episodes[j.by].gen
              /\ episodes'[j.by].rgen = episodes[j.by].rgen
         /\ \A k \in Episodes : k # j.by =>
              ((\E l \in joins : l.by = k) => \E l \in joins' : l.by = k)
<1>1. /\ joins' = joins \ {j}
      /\ j.by \notin Episodes => UNCHANGED episodes
  BY OwnerTypes DEF Resume, Set, HeardInv
<1>2. j.by \in Episodes =>
        /\ Set(j.by, [episodes[j.by] EXCEPT !.pc = pc]) /\ episodes[j.by].pc = "joining"
        /\ episodes[j.by].rgen = j.gen
  BY OwnerTypes DEF Resume, HeardInv, OwnerInv, ClaimInv, JoinsAgree, ToldInv, JoinsOwned
<1>3. j.by \in Episodes =>
        /\ episodes'[j.by].pc = pc /\ episodes'[j.by].gen = episodes[j.by].gen
        /\ episodes'[j.by].rgen = episodes[j.by].rgen
  <2>1. SUFFICES ASSUME j.by \in Episodes
        PROVE /\ episodes'[j.by].pc = pc /\ episodes'[j.by].gen = episodes[j.by].gen
              /\ episodes'[j.by].rgen = episodes[j.by].rgen
    OBVIOUS
  <2>2. PICK r : r = [episodes[j.by] EXCEPT !.pc = pc]
    OBVIOUS
  <2>3. episodes[j.by] \in Episode
    BY <2>1, OwnerTypes DEF HeardInv
  <2>4. r.pc = pc /\ r.gen = episodes[j.by].gen /\ r.rgen = episodes[j.by].rgen
    BY ONLY <2>2, <2>3, MovedFields
  <2>5. episodes'[j.by] = r
    BY <1>2, <2>1, <2>2, OwnerTypes, SetSlot DEF HeardInv
  <2>6. QED BY <2>4, <2>5
<1>4. \A k \in Episodes : k # j.by => episodes'[k] = episodes[k]
  <2>1. CASE j.by \in Episodes
    BY <1>2, <2>1, OwnerTypes, SetSlot DEF HeardInv
  <2>2. QED BY <1>1, <2>1
<1>5. QED BY <1>1, <1>2, <1>3, <1>4

\* The joins that go on when one returns.
LEMMA JoinsOwnedShrink ==
  ASSUME HeardInv, NEW j \in joins, NEW pc \in {"joined", "joinFailed"}, Resume(j, pc),
         gen' \in Nat, gen' >= gen,
         \A l \in joins \ {j} : l.gen = gen /\ gen' = gen => state' = "Connecting"
  PROVE  JoinsOwned'
<1>1. \A l \in joins : l.gen \in Nat /\ l.gen <= gen /\ gen \in Nat
  BY OwnerTypes DEF HeardInv, OwnerInv, ClaimInv, JoinsAgree
<1>2. \A l \in joins : l.by \in Episodes => l.gen = episodes'[l.by].rgen
  BY ResumeSlots DEF HeardInv, ToldInv, JoinsOwned
<1>3. joins' = joins \ {j}
  BY ResumeSlots
<1>4. QED BY <1>1, <1>2, <1>3 DEF JoinsOwned

\* The session is up.  It is announced unless a coroutine asked for silence,
\* and without one the listener was last told Disconnected, or nothing.
LEMMA ConnectCommitTold ==
  ASSUME HeardInv, NEW j \in joins, ConnectCommit(j)
  PROVE  ToldInv'
<1>1. /\ Resume(j, "joined") /\ IoFree /\ gen = j.gen /\ state = "Connecting"
      /\ installed = gen /\ state' = "Connected" /\ UNCHANGED <<gen, installed>>
      /\ UNCHANGED <<inbox, appDelivery, heard>> /\ (active' <=> active)
      /\ IF suppressed THEN UNCHANGED ioDelivery ELSE Tell("Connected", gen', state')
  BY DEF ConnectCommit, active, suppressed
<1>2. gen' \in Nat /\ gen' >= gen /\ gen \in Nat /\ installed' \in Nat
  BY <1>1, OwnerTypes DEF HeardInv
<1>3. \A l \in joins \ {j} : l.gen # gen
  BY <1>1 DEF HeardInv, OwnerInv, ClaimInv, JoinsAgree
<1>4. JoinsOwned'
  BY <1>1, <1>2, <1>3, JoinsOwnedShrink
<1>5. EventsCurrent'
  BY <1>1, <1>2, QueueEvents, EventsStay DEF HeardInv, ToldInv
<1>6. appDelivery = Nothing /\ ioDelivery = Nothing
  BY <1>1, NoAppDelivery DEF HeardInv, IoFree
<1>7. StateTold'
  BY <1>1 DEF StateTold
<1>8. ~suppressed => Told \in Out
  <2>1. SUFFICES ASSUME ~suppressed, Told \notin Out PROVE FALSE
    OBVIOUS
  <2>2. PICK k \in Episodes : episodes[k].pc = "joining" /\ episodes[k].rgen = gen
    BY <1>1, <2>1 DEF HeardInv, ToldInv, StateTold
  <2>3. QED BY <2>1, <2>2 DEF HeardInv, ToldInv, EpisodesTold, EpisodeTold
<1>9. DeliveriesCurrent'
  <2>1. CASE suppressed
    BY <1>1, <1>6, <2>1, NoDelivery DEF delivery
  <2>2. CASE ~suppressed
    <3>1. "Connected" \in Kinds /\ "Connected" # "Reconnected"
      BY DEF Kinds
    <3>2. QED BY <1>1, <1>6, <1>8, <2>2, <3>1, TellIsCurrent
  <2>3. QED BY <2>1, <2>2
<1>10. ASSUME NEW k \in Episodes PROVE EpisodeTold(k)'
  <2>1. CASE k = j.by
    <3>1. /\ episodes[k].pc = "joining" /\ episodes[k].rgen = gen
          /\ episodes'[k].pc = "joined" /\ episodes'[k].rgen = gen
      BY <1>1, <2>1, ResumeSlots
    <3>2. suppressed /\ active /\ Told = "Reconnecting"
      BY <3>1 DEF HeardInv, ToldInv, EpisodesTold, EpisodeTold
    <3>3. Told' = Told
      BY <1>1, <3>2, NothingTold DEF delivery
    <3>4. QED BY <1>1, <3>1, <3>2, <3>3 DEF EpisodeTold, WaitPcs, FinishPcs
  <2>2. CASE k # j.by
    <3>1. /\ episodes'[k] = episodes[k]
          /\ (\E l \in joins : l.by = k) => \E l \in joins' : l.by = k
      BY <1>1, <2>2, ResumeSlots
    <3>2. ~Claims(k)
      <4>1. SUFFICES ASSUME Claims(k) PROVE FALSE
        OBVIOUS
      <4>2. episodes[k].pc \in WaitPcs /\ gen = episodes[k].gen
        BY <1>1, <2>2, <4>1, FreeShape DEF HeardInv
      <4>3. QED BY <1>1, <4>2 DEF HeardInv, ToldInv, EpisodesTold, EpisodeTold
    <3>3. QED BY <1>2, <3>1, <3>2, NoClaimTold
  <2>3. QED BY <2>1, <2>2
<1>11. QED BY <1>4, <1>5, <1>7, <1>9, <1>10 DEF ToldInv, EpisodesTold

\* The join fails.
LEMMA JoinFailsTold ==
  ASSUME HeardInv, NEW j \in joins, JoinFails(j)
  PROVE  ToldInv'
<1>1. /\ Resume(j, "joinFailed") /\ IoFree /\ (active' <=> active) /\ (disabled' <=> disabled)
      /\ gen' = IF gen = j.gen THEN gen + 1 ELSE gen
      /\ installed' = IF installed = j.gen THEN 0 ELSE installed
      /\ IF j.gen \in {gen, installed} THEN state' = "Disconnected"
         ELSE UNCHANGED state /\ (suppressed' <=> suppressed)
      /\ UNCHANGED <<inbox, delivery>>
  BY DEF JoinFails, active, disabled, suppressed
<1>2. /\ gen' \in Nat /\ gen' >= gen /\ gen \in Nat /\ installed \in Nat /\ installed' \in Nat
      /\ installed <= gen /\ installed' <= gen'
  BY <1>1, OwnerTypes DEF HeardInv, ToldInv, EventsCurrent
<1>3. j.gen > 0 /\ j.gen \in Nat
  BY OwnerTypes DEF HeardInv, OwnerInv, ClaimInv, JoinsAgree
<1>4. Told' = Told /\ ioDelivery = Nothing
  BY <1>1, NothingTold DEF IoFree
<1>5. /\ \A k \in Episodes : k # j.by =>
           /\ episodes'[k] = episodes[k]
           /\ (\E l \in joins : l.by = k) => \E l \in joins' : l.by = k
      /\ j.by \in Episodes =>
           /\ episodes[j.by].pc = "joining" /\ episodes[j.by].rgen = j.gen
           /\ episodes'[j.by].pc = "joinFailed" /\ episodes'[j.by].rgen = j.gen
  BY <1>1, ResumeSlots
<1>6. EventsCurrent'
  <2>1. gen' = gen /\ installed = gen => installed' = gen
    BY <1>1
  <2>2. QED BY <1>1, <1>2, <2>1, QueueEvents, EventsStay DEF HeardInv, ToldInv
<1>7. \A k \in Episodes : episodes[k].pc \notin {"rejoin", "joined", "joinFailed"}
  BY <1>1 DEF IoFree
<1>8. CASE j.gen = gen
  <2>1. state = "Connecting"
    BY <1>8 DEF HeardInv, ToldInv, JoinsOwned
  <2>2. installed' = 0 /\ gen' = gen + 1 /\ state' = "Disconnected"
    BY <1>1, <1>8, <2>1 DEF HeardInv, OwnerInv, OwnershipInv, SessionOwnership
  <2>3. JoinsOwned'
    BY <1>1, <1>2, <2>2, JoinsOwnedShrink
  <2>4. DeliveriesCurrent'
    <3>1. appDelivery = Nothing
      BY <2>1, NoAppDelivery DEF HeardInv
    <3>2. QED BY <1>1, <1>4, <3>1, NoDelivery
  <2>5. ASSUME Told \notin Out
        PROVE  /\ active
               /\ \E k \in Episodes : episodes'[k].pc = "joinFailed" /\ gen' = episodes'[k].rgen + 1
    <3>1. PICK k \in Episodes : episodes[k].pc = "joining" /\ episodes[k].rgen = gen
      BY <2>1, <2>5 DEF HeardInv, ToldInv, StateTold
    <3>2. j.by = k
      BY <1>8, <3>1, AwaitedJoin
    <3>3. active
      BY <3>1 DEF HeardInv, ToldInv, EpisodesTold, EpisodeTold
    <3>4. QED BY <1>5, <1>8, <2>2, <3>2, <3>3
  <2>6. StateTold'
    BY <1>1, <1>4, <2>2, <2>5 DEF StateTold
  <2>7. ASSUME NEW k \in Episodes PROVE EpisodeTold(k)'
    <3>1. CASE k = j.by
      <4>1. Told = "Reconnecting"
        BY <1>5, <1>8, <3>1 DEF HeardInv, ToldInv, EpisodesTold, EpisodeTold
      <4>2. QED BY <1>4, <1>5, <3>1, <4>1 DEF EpisodeTold, WaitPcs, FinishPcs
    <3>2. CASE k # j.by
      <4>1. ~Claims(k)
        <5>1. SUFFICES ASSUME Claims(k) PROVE FALSE
          OBVIOUS
        <5>2. episodes[k].pc \in WaitPcs /\ gen = episodes[k].gen
          BY <1>1, <1>8, <2>1, <3>2, <5>1, FreeShape DEF HeardInv
        <5>3. QED BY <2>1, <5>2 DEF HeardInv, ToldInv, EpisodesTold, EpisodeTold
      <4>2. QED BY <1>2, <1>5, <3>2, <4>1, NoClaimTold
    <3>3. QED BY <3>1, <3>2
  <2>8. QED BY <1>6, <2>3, <2>4, <2>6, <2>7 DEF ToldInv, EpisodesTold
<1>9. CASE j.gen # gen /\ j.gen = installed
  <2>1. state = "Disconnected" /\ state' = "Disconnected" /\ gen' = gen /\ installed' = 0
    BY <1>1, <1>3, <1>9
      DEF HeardInv, OwnerInv, OwnershipInv, SessionOwnership, TypeOK, States
  <2>2. \A l \in joins : l.gen # gen
    BY <2>1 DEF HeardInv, ToldInv, JoinsOwned
  <2>3. JoinsOwned'
    BY <1>1, <1>2, <2>2, JoinsOwnedShrink
  <2>4. DeliveriesCurrent'
    <3>1. appDelivery = Nothing
      BY <1>3, <1>9, NoAppDelivery DEF HeardInv
    <3>2. QED BY <1>1, <1>4, <3>1, NoDelivery
  <2>5. ASSUME Told \notin Out
        PROVE  /\ active
               /\ \E k \in Episodes : episodes'[k].pc = "joinFailed" /\ gen' = episodes'[k].rgen + 1
    <3>1. /\ active /\ gen = installed + 1
          /\ \E k \in Episodes : episodes[k].pc = "joining" /\ episodes[k].rgen = installed
      BY <1>3, <1>9, <2>1, <2>5 DEF HeardInv, ToldInv, StateTold
    <3>2. PICK k \in Episodes : episodes[k].pc = "joining" /\ episodes[k].rgen = installed
      BY <3>1
    <3>3. j.by = k
      BY <1>9, <3>2, AwaitedJoin
    <3>4. QED BY <1>5, <1>9, <2>1, <3>1, <3>3
  <2>6. StateTold'
    BY <1>1, <1>4, <2>1, <2>5 DEF StateTold
  <2>7. ASSUME NEW k \in Episodes PROVE EpisodeTold(k)'
    <3>0. EpisodeTold(k)
      BY DEF HeardInv, ToldInv, EpisodesTold
    <3>1. CASE k = j.by
      <4>1. gen = j.gen + 1 /\ active => Told = "Reconnecting"
        BY <1>5, <3>0, <3>1 DEF EpisodeTold
      <4>2. QED BY <1>1, <1>4, <1>5, <2>1, <3>1, <4>1 DEF EpisodeTold, WaitPcs, FinishPcs
    <3>2. CASE k # j.by
      <4>1. ~(episodes[k].pc = "joining" /\ gen = episodes[k].rgen)
        <5>1. SUFFICES ASSUME episodes[k].pc = "joining", gen = episodes[k].rgen PROVE FALSE
          OBVIOUS
        <5>2. PICK l \in joins : l.by = k
          BY <3>0, <5>1 DEF EpisodeTold
        <5>3. l.gen = gen
          BY <5>1, <5>2 DEF HeardInv, ToldInv, JoinsOwned
        <5>4. QED BY <2>2, <5>3
      <4>2. QED BY <1>1, <1>4, <1>5, <1>7, <2>1, <3>0, <3>2, <4>1 DEF EpisodeTold
    <3>3. QED BY <3>1, <3>2
  <2>8. QED BY <1>6, <2>3, <2>4, <2>6, <2>7 DEF ToldInv, EpisodesTold
<1>10. CASE j.gen \notin {gen, installed}
  <2>1. RoomSame
    BY <1>1, <1>4, <1>10 DEF RoomSame
  <2>2. JoinsOwned'
    <3>1. \A l \in joins : l.gen = gen => state' = "Connecting"
      BY <2>1 DEF HeardInv, ToldInv, JoinsOwned, RoomSame
    <3>2. QED BY <1>1, <1>2, <3>1, JoinsOwnedShrink
  <2>3. DeliveriesCurrent'
    BY <1>1, <2>1, DeliveriesStay DEF HeardInv, RoomSame
  <2>4. ASSUME NEW k \in Episodes PROVE EpisodeTold(k)'
    <3>1. CASE k = j.by
      <4>1. gen = j.gen + 1 /\ active => Told = "Reconnecting"
        BY <1>5, <3>1 DEF HeardInv, ToldInv, EpisodesTold, EpisodeTold
      <4>2. QED BY <1>5, <2>1, <3>1, <4>1 DEF EpisodeTold, RoomSame, WaitPcs, FinishPcs
    <3>2. CASE k # j.by
      BY <1>5, <2>1, <3>2, SameTold
    <3>3. QED BY <3>1, <3>2
  <2>5. StateTold'
    <3>1. StateTold /\ \A k \in Episodes : /\ episodes[k].pc \notin {"rejoin", "joinFailed"}
                                           /\ episodes[k].rgen \in {gen, installed} => k # j.by
      BY <1>5, <1>7, <1>10 DEF HeardInv, ToldInv
    <3>2. \A k \in Episodes : episodes[k].pc = "joining" /\ episodes[k].rgen \in {gen, installed}
            => episodes'[k] = episodes[k]
      BY <1>5, <3>1
    <3>3. state = "Connecting" /\ Told \notin Out =>
            \E k \in Episodes : episodes'[k].pc = "joining" /\ episodes'[k].rgen = gen
      BY <3>1, <3>2 DEF StateTold
    <3>4. state = "Disconnected" /\ installed \notin {0, gen} /\ Told \notin Out =>
            \E k \in Episodes : episodes'[k].pc = "joining" /\ episodes'[k].rgen = installed
      BY <3>1, <3>2 DEF StateTold
    <3>5. state = "Disconnected" /\ installed = 0 /\ Told \notin Out => active /\ disabled
      BY <3>1 DEF StateTold
    <3>6. QED BY <2>1, <3>1, <3>3, <3>4, <3>5 DEF StateTold, RoomSame
  <2>6. QED BY <1>6, <2>2, <2>3, <2>4, <2>5 DEF ToldInv, EpisodesTold
<1>11. QED BY <1>8, <1>9, <1>10

-----------------------------------------------------------------------------
\* A step that leaves the room and what has been told; reconnection may be
\* forbidden meanwhile.
LEMMA RoomStays ==
  ASSUME HeardInv, UNCHANGED <<state, gen, installed, joins, episodes>>, Told' = Told,
         active' <=> active, suppressed' <=> suppressed,
         (disabled' <=> disabled) \/ (disabled' /\ IoFree),
         EventsFrom, DeliveriesCurrent'
  PROVE  ToldInv'
<1>1. /\ gen' \in Nat /\ gen' >= gen /\ installed' \in Nat /\ installed' <= gen'
  BY OwnerTypes DEF HeardInv, ToldInv, EventsCurrent
<1>2. EventsCurrent'
  BY <1>1, EventsStay DEF HeardInv, ToldInv
<1>3. JoinsOwned'
  BY DEF HeardInv, ToldInv, JoinsOwned
<1>4. disabled => disabled'
  OBVIOUS
<1>5. StateTold'
  BY <1>4 DEF HeardInv, ToldInv, StateTold
<1>6. ASSUME NEW k \in Episodes PROVE EpisodeTold(k)'
  <2>1. EpisodeTold(k)
    BY DEF HeardInv, ToldInv, EpisodesTold
  <2>2. episodes[k].pc = "rejoin" => (disabled' <=> disabled)
    BY DEF IoFree
  <2>3. QED BY <2>1, <2>2 DEF EpisodeTold
<1>7. QED BY <1>2, <1>3, <1>5, <1>6 DEF ToldInv, EpisodesTold

\* What the network does.
LEMMA NetworkTold ==
  ASSUME HeardInv, NetworkStep
  PROVE  ToldInv'
<1>1. /\ UNCHANGED <<state, gen, installed, flags, joins, episodes, delivery>>
      /\ \E kind : inbox' = Append(inbox, [kind |-> kind, gen |-> installed])
  BY DEF NetworkStep, LoseSignal, ServerLeave, ServerReconnectRequest, Post, session, coroutines
<1>2. RoomSame
  BY <1>1, QuietRoom
<1>3. EventsFrom
  BY <1>1, QueueEvents DEF HeardInv
<1>4. DeliveriesCurrent'
  BY <1>1, <1>2, DeliveriesStay DEF HeardInv, RoomSame
<1>5. QED BY <1>1, <1>2, <1>3, <1>4, RoomStays DEF RoomSame

\* A delivery is admitted as long as the room is not retired: what was told is
\* heard.
LEMMA DeliverTold ==
  ASSUME HeardInv, DeliverOnIo \/ DeliverOnApp
  PROVE  ToldInv'
<1>1. UNCHANGED <<state, gen, installed, flags, joins, episodes, inbox>>
  BY DEF DeliverOnIo, DeliverOnApp, session, coroutines
<1>2. (active' <=> active) /\ (disabled' <=> disabled) /\ (suppressed' <=> suppressed)
  BY <1>1 DEF active, disabled, suppressed
<1>3. EventsFrom
  BY <1>1, QueueEvents DEF HeardInv
<1>4. DeliveriesCurrent
  BY DEF HeardInv, ToldInv
<1>5. CASE DeliverOnIo
  <2>1. /\ ioDelivery # Nothing /\ appDelivery = Nothing /\ Admit(ioDelivery)
    BY <1>4, <1>5 DEF DeliverOnIo, DeliveriesCurrent, Admit, HeardInv
  <2>2. ioDelivery' = Nothing /\ appDelivery' = Nothing /\ heard' = ioDelivery.kind
    BY <1>5, <2>1 DEF DeliverOnIo
  <2>3. Told' = Told /\ DeliveriesCurrent'
    BY <2>1, <2>2 DEF Told, DeliveriesCurrent
  <2>4. QED BY <1>1, <1>2, <1>3, <2>3, RoomStays
<1>6. CASE DeliverOnApp
  <2>1. /\ appDelivery # Nothing /\ ioDelivery = Nothing /\ appDelivery.kind = "Disconnected"
        /\ Admit(appDelivery)
    BY <1>4, <1>6 DEF DeliverOnApp, DeliveriesCurrent, Admit, HeardInv
  <2>2. ioDelivery' = Nothing /\ appDelivery' = Nothing /\ heard' = "Disconnected"
    BY <1>6, <2>1 DEF DeliverOnApp
  <2>3. Told' = Told /\ DeliveriesCurrent'
    BY <2>1, <2>2 DEF Told, DeliveriesCurrent
  <2>4. QED BY <1>1, <1>2, <1>3, <2>3, RoomStays
<1>7. QED BY <1>5, <1>6

\* An end of the session that is announced: by the application, or the server.
LEMMA EndTold ==
  ASSUME HeardInv, IoFree, EndSession, ~active', Told' = "Disconnected",
         UNCHANGED <<joins, episodes>>, EventsFrom, DeliveriesCurrent'
  PROVE  ToldInv'
<1>1. /\ state' = "Disconnected" /\ gen' = gen + 1 /\ installed' = 0
      /\ gen \in Nat /\ gen' \in Nat /\ gen' >= gen /\ gen' # gen
      /\ installed' \in Nat /\ installed' <= gen'
  BY OwnerTypes DEF EndSession, HeardInv
<1>2. EventsCurrent'
  BY <1>1, EventsStay DEF HeardInv, ToldInv
<1>3. \A j \in joins : j.gen \in Nat /\ j.gen <= gen
  BY OwnerTypes DEF HeardInv, OwnerInv, ClaimInv, JoinsAgree
<1>4. JoinsOwned'
  BY <1>1, <1>3 DEF HeardInv, ToldInv, JoinsOwned
<1>5. StateTold'
  BY <1>1 DEF StateTold, Out
<1>6. EpisodesTold'
  BY <1>1, NewGenerationTold DEF JoinsKept
<1>7. QED BY <1>2, <1>4, <1>5, <1>6 DEF ToldInv

\* The application leaves, between two handlers of the I/O thread.
LEMMA DisconnectTold ==
  ASSUME HeardInv, ~DisconnectAnywhere, Disconnect
  PROVE  ToldInv'
<1>1. /\ IoFree /\ ioDelivery = Nothing /\ DisconnectNow
      /\ UNCHANGED <<joins, episodes, inbox, ioDelivery, heard>>
  BY DEF Disconnect, coroutines, IoFree
<1>2. /\ EndSession /\ ~active' /\ disabled'
      /\ appDelivery' = [kind |-> "Disconnected", gen |-> gen', state |-> "Disconnected"]
      /\ state' = "Disconnected" /\ installed' = 0
  BY <1>1 DEF DisconnectNow, EndSession, active, disabled
<1>3. appDelivery' # Nothing
  BY <1>2 DEF Nothing
<1>4. Told' = "Disconnected"
  BY <1>1, <1>3 DEF Told
<1>5. DeliveriesCurrent'
  BY <1>1, <1>2 DEF DeliveriesCurrent
<1>6. EventsFrom
  BY <1>1, QueueEvents DEF HeardInv
<1>7. QED BY <1>1, <1>2, <1>4, <1>5, <1>6, EndTold

\* The application connects again: it was told Disconnected, or nothing.
LEMMA ConnectTold ==
  ASSUME HeardInv, Connect
  PROVE  ToldInv'
<1>1. /\ MayConnect /\ IoFree /\ BeginConnect(0) /\ appDelivery = Nothing
      /\ ioDelivery = Nothing /\ UNCHANGED <<episodes, inbox, delivery>>
  BY DEF Connect, IoFree
<1>2. /\ gen \in Nat /\ gen' = gen + 1 /\ gen' \in Nat /\ gen' >= gen /\ gen' # gen
      /\ installed' = 0 /\ installed = 0 /\ state = "Disconnected" /\ state' = "Connecting"
      /\ (active' => active) /\ 0 \in Nat /\ 0 \notin Episodes /\ Told' = Told
  BY <1>1, OwnerTypes, NothingTold DEF HeardInv, MayConnect, BeginConnect, active
<1>3. JoinsOwned' /\ joins \subseteq joins'
  BY <1>1, <1>2, NewJoinOwned
<1>4. EventsCurrent'
  BY <1>1, <1>2, QueueEvents, EventsStay DEF HeardInv, ToldInv
<1>5. DeliveriesCurrent'
  BY <1>1, NoDelivery
<1>6. Told \in Out
  BY <1>1, <1>2 DEF HeardInv, ToldInv, StateTold, MayConnect, IoFree
<1>7. StateTold'
  BY <1>2, <1>6 DEF StateTold
<1>8. ASSUME NEW k \in Episodes, episodes[k].pc \in FinishPcs, gen = episodes[k].rgen
      PROVE  FALSE
  <2>1. Claims(k) /\ episodes[k].pc # "none" /\ episodes[k].rgen \in Nat
    BY <1>2, <1>8, OwnerTypes DEF Claims, FinishPcs, HeardInv
  <2>2. ClaimShape(k) /\ Agrees(episodes[k]) /\ episodes[k].gen \in Nat
    BY <2>1, OwnerTypes DEF HeardInv, OwnerInv, ClaimInv, ClaimsShaped, GenerationsAgree
  <2>3. QED BY <1>2, <1>8, <2>1, <2>2 DEF ClaimShape, Agrees
<1>9. EpisodesTold'
  BY <1>1, <1>2, <1>3, <1>8, NewGenerationTold DEF JoinsKept
<1>10. QED BY <1>3, <1>4, <1>5, <1>7, <1>9 DEF ToldInv

\* The connection is lost.
LEMMA CloseTold ==
  ASSUME HeardInv, IoFree, inbox # <<>>, HandleClose(Head(inbox).gen),
         UNCHANGED <<coroutines, appDelivery, heard>>
  PROVE  ToldInv'
<1> DEFINE g == Head(inbox).gen
<1>1. EventsFrom
  <2>1. \A kind, n : [kind |-> kind, gen |-> n].gen = n
    OBVIOUS
  <2>2. CASE inbox' = Tail(inbox)
    BY <2>2, QueueEvents DEF HeardInv
  <2>3. CASE /\ IsSignalGenerationCurrent(g)
             /\ inbox' = Append(Tail(inbox), [kind |-> "attempt", gen |-> gen])
    BY <2>1, <2>3, QueueEvents DEF HeardInv, IsSignalGenerationCurrent
  <2>4. QED BY <2>2, <2>3 DEF HandleClose
<1>2. /\ UNCHANGED <<joins, episodes, flags, installed>> /\ ioDelivery = Nothing
      /\ (active' <=> active) /\ (disabled' <=> disabled) /\ (suppressed' <=> suppressed)
  BY DEF HandleClose, coroutines, IoFree, active, disabled, suppressed, session
<1>3. gen \in Nat /\ installed \in Nat /\ installed <= gen
  BY OwnerTypes DEF HeardInv, ToldInv, EventsCurrent
<1>4. CASE UNCHANGED <<state, gen, ioDelivery>>
  <2>1. UNCHANGED delivery /\ RoomSame
    BY <1>2, <1>4, QuietRoom DEF delivery
  <2>2. DeliveriesCurrent'
    BY <2>1, DeliveriesStay DEF HeardInv, RoomSame
  <2>3. QED BY <1>1, <1>2, <2>1, <2>2, RoomStays DEF RoomSame
<1>5. CASE /\ state = "Connected" /\ UNCHANGED gen
           /\ \/ state' = "Reconnecting" /\ Tell("Reconnecting", gen, "Reconnecting")
              \/ state' = "Disconnected" /\ Tell("Disconnected", gen, "Disconnected")
  <2>1. appDelivery = Nothing /\ appDelivery' = Nothing
    BY <1>5, NoAppDelivery DEF HeardInv
  <2>2. PICK kind \in {"Reconnecting", "Disconnected"} :
          Tell(kind, gen', state') /\ state' = kind
    BY <1>5
  <2>3. Told' = kind /\ DeliveriesCurrent' /\ kind \in Kinds
    <3>1. kind \in Kinds /\ kind # "Connected" /\ kind # "Reconnected"
      BY <2>2 DEF Kinds
    <3>2. QED BY <1>2, <2>1, <2>2, <3>1, TellFacts, TellIsCurrent
  <2>4. EventsCurrent'
    BY <1>1, <1>2, <1>3, <1>5, EventsStay DEF HeardInv, ToldInv
  <2>5. JoinsOwned'
    BY <1>2, <1>5 DEF HeardInv, ToldInv, JoinsOwned
  <2>6. installed = gen
    BY <1>5 DEF HeardInv, OwnerInv, OwnershipInv, SessionOwnership
  <2>7. StateTold'
    BY <1>2, <1>5, <2>2, <2>3, <2>6 DEF StateTold, Out
  <2>8. ASSUME NEW k \in Episodes PROVE EpisodeTold(k)'
    <3>1. EpisodeTold(k) /\ episodes[k].pc \notin {"rejoin", "joined", "joinFailed"}
      BY DEF HeardInv, ToldInv, EpisodesTold, IoFree
    <3>2. ~(episodes[k].pc \in WaitPcs /\ gen = episodes[k].gen)
      BY <1>5, <3>1 DEF EpisodeTold
    <3>3. ~(episodes[k].pc = "joining" /\ gen <= episodes[k].rgen + 1)
      <4>1. SUFFICES ASSUME episodes[k].pc = "joining", gen <= episodes[k].rgen + 1 PROVE FALSE
        OBVIOUS
      <4>2. Claims(k)
        BY <4>1 DEF Claims, JoinPcs
      <4>3. state \in {"Connecting", "Disconnected"}
        BY <4>1, <4>2 DEF HeardInv, OwnerInv, ClaimInv, ClaimsShaped, ClaimShape
      <4>4. QED BY <1>5, <4>3
    <3>4. episodes[k].rgen \in Nat /\ episodes'[k] = episodes[k] /\ UNCHANGED joins
      BY <1>2, OwnerTypes DEF HeardInv
    <3>5. ~(episodes[k].pc = "joining" /\ gen = episodes[k].rgen)
      BY <1>3, <3>3, <3>4
    <3>6. ~(episodes[k].pc = "joining" /\ gen = episodes[k].rgen + 1)
      BY <1>3, <3>3, <3>4
    <3>7. QED
      BY <1>2, <1>5, <2>2, <2>3, <3>1, <3>2, <3>4, <3>5, <3>6 DEF EpisodeTold
  <2>9. QED BY <2>3, <2>4, <2>5, <2>7, <2>8 DEF ToldInv, EpisodesTold
<1>6. CASE /\ state = "Connecting" /\ IsSignalGenerationCurrent(g) /\ state' = "Disconnected"
           /\ gen' = gen + 1 /\ UNCHANGED ioDelivery
  <2>1. UNCHANGED delivery /\ Told' = Told /\ appDelivery = Nothing
    BY <1>6, NothingTold, NoAppDelivery DEF delivery, HeardInv
  <2>2. DeliveriesCurrent'
    BY <1>2, <2>1, NoDelivery
  <2>3. installed = gen
    <3>1. inbox \in Seq(Event)
      BY DEF HeardInv, OwnerInv, OwnershipInv, TypeOK
    <3>2. 1 \in DOMAIN inbox /\ inbox[1] = Head(inbox)
      BY <3>1
    <3>3. QED BY <1>6, <3>2 DEF HeardInv, ToldInv, EventsCurrent, IsSignalGenerationCurrent
  <2>4. PICK j \in joins : j.gen = gen
    BY <1>6 DEF HeardInv, OwnerInv, OwnershipInv, ConnectingHasJoin
  <2>5. /\ gen > 0 /\ gen' \in Nat /\ gen' >= gen /\ gen' # gen
        /\ installed' \in Nat /\ installed' <= gen' /\ installed' = gen
    BY <1>2, <1>3, <1>6, <2>3, <2>4, OwnerTypes DEF HeardInv, OwnerInv, ClaimInv, JoinsAgree
  <2>6. EventsCurrent'
    BY <1>1, <2>5, EventsStay DEF HeardInv, ToldInv
  <2>7. \A l \in joins : l.gen \in Nat /\ l.gen <= gen
    BY OwnerTypes DEF HeardInv, OwnerInv, ClaimInv, JoinsAgree
  <2>8. JoinsOwned'
    BY <1>2, <1>3, <1>6, <2>7 DEF HeardInv, ToldInv, JoinsOwned
  <2>9. Told \notin Out =>
          /\ active
          /\ \E i \in Episodes : episodes[i].pc = "joining" /\ episodes[i].rgen = gen
    BY <1>6 DEF HeardInv, ToldInv, StateTold, EpisodesTold, EpisodeTold
  <2>10. StateTold'
    BY <1>2, <1>3, <1>6, <2>1, <2>5, <2>9 DEF StateTold
  <2>11. ASSUME NEW k \in Episodes, episodes[k].pc \in FinishPcs, gen = episodes[k].rgen
         PROVE  FALSE
    <3>1. Claims(k)
      BY <1>3, <2>11 DEF Claims
    <3>2. ClaimShape(k)
      BY <3>1 DEF HeardInv, OwnerInv, ClaimInv, ClaimsShaped
    <3>3. QED BY <1>3, <2>4, <2>11, <3>2 DEF ClaimShape
  <2>12. EpisodesTold'
    BY <1>2, <1>6, <2>1, <2>11, NewGenerationTold DEF JoinsKept
  <2>13. QED BY <2>2, <2>6, <2>8, <2>10, <2>12 DEF ToldInv
<1>7. QED BY <1>4, <1>5, <1>6 DEF HandleClose, MayReconnect, session

\* The other events of the queue.
LEMMA LeaveTold ==
  ASSUME HeardInv, IoFree, inbox # <<>>, UNCHANGED <<coroutines, appDelivery, heard>>,
         \/ HandleLeave(Head(inbox).gen) \/ HandleReconnectRequest(Head(inbox).gen)
  PROVE  ToldInv'
<1> DEFINE g == Head(inbox).gen
<1>1. /\ UNCHANGED <<state, gen, installed, joins, episodes, ioDelivery, delivery>>
      /\ (active' <=> active) /\ (suppressed' <=> suppressed)
      /\ (disabled' <=> disabled) \/ (disabled' /\ IoFree)
  BY DEF HandleLeave, BeginServerDisconnect, HandleReconnectRequest, session, coroutines,
    delivery, active, suppressed, disabled
<1>2. EventsFrom
  <2>1. \A kind, n : [kind |-> kind, gen |-> n].gen = n
    OBVIOUS
  <2>2. CASE inbox' = Tail(inbox)
    BY <2>2, QueueEvents DEF HeardInv
  <2>3. CASE \E kind : inbox' = Append(Tail(inbox), [kind |-> kind, gen |-> g])
    BY <2>1, <2>3, QueueEvents DEF HeardInv
  <2>4. QED
    BY <2>2, <2>3 DEF HandleLeave, BeginServerDisconnect, HandleReconnectRequest
<1>3. DeliveriesCurrent'
  BY <1>1, DeliveriesStay DEF HeardInv
<1>4. QED BY <1>1, <1>2, <1>3, NothingTold, RoomStays

\* The cleanup after a terminal leave, or nothing.
LEMMA FinalizeTold ==
  ASSUME HeardInv, IoFree, inbox # <<>>, UNCHANGED <<coroutines, appDelivery, heard>>,
         FinalizeServerDisconnect(Head(inbox).gen)
  PROVE  ToldInv'
<1>1. UNCHANGED <<joins, episodes>> /\ EventsFrom /\ ioDelivery = Nothing
  BY QueueEvents DEF FinalizeServerDisconnect, coroutines, HeardInv, IoFree
<1>2. CASE UNCHANGED <<session, ioDelivery>> /\ flags' \in {flags, flags \ {"finalizing"}}
  <2>1. /\ UNCHANGED <<state, gen, installed, delivery>> /\ (active' <=> active)
        /\ (disabled' <=> disabled) /\ (suppressed' <=> suppressed)
    BY <1>2 DEF session, delivery, active, disabled, suppressed
  <2>2. DeliveriesCurrent'
    BY <2>1, DeliveriesStay DEF HeardInv
  <2>3. QED BY <1>1, <2>1, <2>2, NothingTold, RoomStays
<1>3. CASE /\ state # "Disconnected" \/ installed # 0
           /\ EndSession /\ ~active' /\ Tell("Disconnected", gen + 1, "Disconnected")
  <2>1. appDelivery = Nothing
    BY <1>3, NoAppDelivery DEF HeardInv
  <2>2. Tell("Disconnected", gen', state') /\ "Disconnected" \in Kinds
    BY <1>3 DEF EndSession, Kinds
  <2>3. Told' = "Disconnected" /\ DeliveriesCurrent'
    BY <1>1, <2>1, <2>2, TellFacts, TellIsCurrent
  <2>4. QED BY <1>1, <1>3, <2>3, EndTold
<1>4. QED BY <1>2, <1>3 DEF FinalizeServerDisconnect, active

\* A coroutine is admitted: the room is Reconnecting, and said so.
LEMMA BeginAttemptTold ==
  ASSUME HeardInv, BeginAttempt
  PROVE  ToldInv'
<1>1. /\ IoFree /\ inbox # <<>> /\ UNCHANGED <<state, gen, installed, joins, delivery>>
      /\ inbox' = Tail(inbox) /\ Told' = Told
  BY NothingTold DEF BeginAttempt, StartAttempt, session
<1>2. EventsFrom
  BY <1>1, QueueEvents DEF HeardInv
<1>3. CASE UNCHANGED <<flags, episodes>>
  <2>1. RoomSame
    BY <1>1, <1>3, QuietRoom
  <2>2. DeliveriesCurrent'
    BY <1>1, <2>1, DeliveriesStay DEF HeardInv, RoomSame
  <2>3. QED BY <1>1, <1>2, <1>3, <2>1, <2>2, RoomStays DEF RoomSame
<1>4. CASE CanOwn(Head(inbox).gen) /\ ~(UNCHANGED <<flags, episodes>>)
  <2>1. /\ gen = Head(inbox).gen /\ installed = gen /\ state = "Reconnecting" /\ ~active
    BY <1>4 DEF CanOwn, IsSignalGenerationCurrent
  <2>2. PICK i \in Episodes, mode \in {"resume", "full"} :
          /\ episodes[i] = Idle
          /\ Set(i, [pc |-> "delay", gen |-> gen, rgen |-> 0, mode |-> mode, tries |-> 0])
    BY <1>4, <2>1 DEF BeginAttempt, StartAttempt
  <2>3. PICK r : r = [pc |-> "delay", gen |-> gen, rgen |-> 0, mode |-> mode, tries |-> 0]
    OBVIOUS
  <2>4. r.pc = "delay" /\ r.gen = gen
    BY <2>3
  <2>5. Set(i, r) /\ episodes'[i] = r /\ \A k \in Episodes \ {i} : episodes'[k] = episodes[k]
    BY <2>2, <2>3, OwnerTypes, SetSlot DEF HeardInv
  <2>6. \A k \in Episodes : ~Claims(k)
    BY <1>1, <2>1, FreeShape, OwnerTypes DEF HeardInv
  <2>7. /\ gen \in Nat /\ installed \in Nat /\ gen' \in Nat /\ gen' >= gen /\ installed' \in Nat
        /\ installed' <= gen'
    BY <1>1, OwnerTypes DEF HeardInv, ToldInv, EventsCurrent
  <2>8. EpisodeTold(i)'
    BY <1>1, <2>1, <2>4, <2>5 DEF EpisodeTold, FinishPcs
  <2>9. \A k \in Episodes \ {i} : EpisodeTold(k)'
    BY <1>1, <2>5, <2>6, <2>7, NoClaimTold
  <2>10. StateTold'
    BY <1>1, <2>1 DEF HeardInv, ToldInv, StateTold
  <2>11. episodes[i].pc # "joining"
    BY <2>2 DEF Idle
  <2>12. JoinsOwned'
    BY <1>1, <2>5, <2>7, <2>11, JoinsOwnedStay
  <2>13. EventsCurrent'
    BY <1>1, <1>2, <2>7, EventsStay DEF HeardInv, ToldInv
  <2>14. DeliveriesCurrent'
    <3>1. appDelivery = Nothing /\ ioDelivery = Nothing
      BY <1>1, <2>1, NoAppDelivery DEF HeardInv, IoFree
    <3>2. QED BY <1>1, <3>1, NoDelivery
  <2>15. QED BY <2>8, <2>9, <2>10, <2>12, <2>13, <2>14 DEF ToldInv, EpisodesTold
<1>5. QED BY <1>3, <1>4 DEF BeginAttempt, StartAttempt

\* Nothing happens.
LEMMA SameVars ==
  ASSUME HeardInv, UNCHANGED vars
  PROVE  ToldInv'
<1>1. UNCHANGED <<state, gen, installed, flags, joins, episodes, inbox, delivery>>
  BY DEF vars, session, coroutines
<1>2. RoomSame /\ EventsFrom
  BY <1>1, QuietRoom, QueueEvents DEF HeardInv
<1>3. DeliveriesCurrent'
  BY <1>1, <1>2, DeliveriesStay DEF HeardInv, RoomSame
<1>4. QED BY <1>1, <1>2, <1>3, RoomStays DEF RoomSame

\* Retirement is never taken back.
LEMMA RetiredStays ==
  ASSUME RetiredIsFlagged, RetiredIsFlagged', [Next]_vars, ~retired'
  PROVE  ~retired
<1>1. app' = "idle"
  BY DEF RetiredIsFlagged
<1>2. app = "idle"
  <2>1. UNCHANGED app \/ app' \in {"retiring", "retired"}
    BY DEF Next, IoStep, AppStep, NetworkStep, JoinStep, EpisodeStep, Connect, HandleEvent,
      BeginAttempt, StartAttempt, DeliverOnIo, DeliverOnApp, Disconnect, Retire,
      RetireDisconnect, LoseSignal, ServerLeave, ServerReconnectRequest, JoinCommit,
      ConnectCommit, JoinFails, Wake, ResumeSignal, ResumeCommit, ResumeFails, Rejoin,
      Rejoined, Republished, ChannelReady, RestartFails, Exhaust, vars
  <2>2. QED BY <1>1, <2>1
<1>3. QED BY <1>2 DEF RetiredIsFlagged

\* Every step of a room in use keeps what has been told in order.
LEMMA ToldStep ==
  ASSUME HeardInv, RetiredIsFlagged, [Next]_vars, ~retired', ~DisconnectAnywhere
  PROVE  ToldInv'
<1>1. ASSUME NEW i \in Episodes, EpisodeStep(i) PROVE ToldInv'
  <2>1. CASE ResumeFails(i)
    <3>1. episodes[i].pc \in WaitPcs
      BY <2>1 DEF ResumeFails, WaitPcs
    <3>2. episodes[i].tries \in Nat
      BY OwnerTypes DEF Episode, HeardInv
    <3>3. QED BY <2>1, <3>1, <3>2, FullRestartTold DEF ResumeFails
  <2>2. CASE RestartFails(i)
    <3>1. /\ episodes[i].pc \in FinishPcs /\ ioDelivery = Nothing
          /\ CatchRestart(i) /\ UNCHANGED <<gen, installed, joins, inbox, delivery>>
      BY <2>2 DEF RestartFails, FinishPcs, IoFree
    <3>2. QED BY <3>1, CatchRestartTold
  <2>3. QED
    BY <1>1, <2>1, <2>2, WakeTold, ResumeSignalTold, ResumeCommitTold, RejoinTold,
      RejoinedTold, RepublishedTold, ChannelReadyTold, ExhaustTold DEF EpisodeStep
<1>2. ASSUME NEW j \in joins, JoinStep(j) PROVE ToldInv'
  BY <1>2, JoinCommitTold, ConnectCommitTold, JoinFailsTold DEF JoinStep
<1>3. CASE HandleEvent
  BY <1>3, CloseTold, LeaveTold, FinalizeTold DEF HandleEvent
<1>4. CASE Retire \/ RetireDisconnect
  <2>1. retired'
    BY <1>4 DEF Retire, RetireDisconnect, DisconnectNow, retired, RetiredIsFlagged
  <2>2. QED BY <2>1
<1>5. CASE UNCHANGED vars
  BY <1>5, SameVars DEF HeardInv
<1>6. QED
  BY <1>1, <1>2, <1>3, <1>4, <1>5, ConnectTold, BeginAttemptTold, DisconnectTold,
    DeliverTold, NetworkTold
  DEF Next, IoStep, AppStep

\* What a listener hears makes sense (the commits of every lifecycle event and
\* their admission in DeliverLifecycleListenerEvent), when Disconnect runs on
\* the I/O thread: Reconnected ends a Reconnecting, and Connected never comes in
\* the middle of one.
THEOREM ListenerIsToldInOrder == ASSUME ~DisconnectAnywhere PROVE Spec => ListenerOrder
<1> DEFINE Inv == ListenerInv /\ RetirementInv
<1>1. Init => Inv
  <2>1. SUFFICES ASSUME Init PROVE ListenerInv /\ RetirementInv
    OBVIOUS
  <2>2. OwnerInv /\ RetirementInv
    BY <2>1, InitOwner, InitType
      DEF Init, RetirementInv, RetiredIsFlagged, RetirementIsFinal, retired
  <2>3. joins = {} /\ inbox = <<>> /\ \A i \in Episodes : episodes[i].pc = "none"
    BY <2>1 DEF Init, Idle
  <2>4. ToldInv
    BY <2>1, <2>3
      DEF Init, ToldInv, DeliveriesCurrent, EventsCurrent, JoinsOwned, EpisodesTold,
        EpisodeTold, StateTold, Told, Out, WaitPcs, FinishPcs
  <2>5. QED BY <2>2, <2>4 DEF ListenerInv
<1>2. Inv /\ [Next]_vars => Inv'
  <2>1. SUFFICES ASSUME ListenerInv, RetirementInv, [Next]_vars
        PROVE ListenerInv' /\ RetirementInv'
    OBVIOUS
  <2>2. OwnerInv' /\ RetirementInv'
    BY <2>1, OwnerStep, TypeStep, RetirementStep DEF ListenerInv, RetirementInv
  <2>3. ~retired' => ~retired
    BY <2>1, <2>2, RetiredStays DEF RetirementInv
  <2>4. ~retired' => ToldInv'
    BY <2>1, <2>3, ToldStep DEF ListenerInv, HeardInv, RetirementInv
  <2>5. QED BY <2>2, <2>4 DEF ListenerInv
<1>3. Inv /\ [Next]_vars =>
        [heard' # heard =>
           CASE heard' = "Connected" -> heard \in {"none", "Disconnected"}
             [] heard' = "Reconnected" -> heard = "Reconnecting"
             [] OTHER -> TRUE]_heard
  <2>1. SUFFICES ASSUME ListenerInv, [Next]_vars, heard' # heard
        PROVE CASE heard' = "Connected" -> heard \in {"none", "Disconnected"}
                [] heard' = "Reconnected" -> heard = "Reconnecting"
                [] OTHER -> TRUE
    OBVIOUS
  <2>2. DeliverOnIo \/ DeliverOnApp
    BY <2>1
    DEF Next, IoStep, AppStep, NetworkStep, JoinStep, EpisodeStep, Connect, HandleEvent,
      BeginAttempt, StartAttempt, Disconnect, Retire, delivery,
      RetireDisconnect, LoseSignal, ServerLeave, ServerReconnectRequest, JoinCommit,
      ConnectCommit, JoinFails, Wake, ResumeSignal, ResumeCommit, ResumeFails, Rejoin,
      Rejoined, Republished, ChannelReady, RestartFails, Exhaust, vars
  <2>3. ~retired
    BY <2>1, <2>2 DEF DeliverOnIo, DeliverOnApp, Admit
  <2>4. DeliveriesCurrent
    BY <2>1, <2>3 DEF ListenerInv, ToldInv
  <2>5. heard' = "Connected" => heard \in {"none", "Disconnected"}
    BY <2>1, <2>2, <2>4 DEF DeliverOnIo, DeliverOnApp, DeliveriesCurrent, Out
  <2>6. heard' = "Reconnected" => heard = "Reconnecting"
    BY <2>1, <2>2, <2>4 DEF DeliverOnIo, DeliverOnApp, DeliveriesCurrent
  <2>7. QED BY <2>5, <2>6
<1>4. QED
  <2>1. Spec => []Inv
    BY <1>1, <1>2, PTL DEF Spec
  <2>2. QED BY <1>3, <2>1, PTL DEF Spec, ListenerOrder
=============================================================================
