-------------------------- MODULE ClipboardProofs --------------------------
(***************************************************************************)
(* OfferInv is an inductive invariant of Clipboard, for any number of      *)
(* copies: what the client is offered is what the peer holds, no list goes *)
(* out before the channel is ready, and what the client copied comes back  *)
(* to it only if a poll met its receipt.                                   *)
(***************************************************************************)
EXTENDS Clipboard, SequenceTheorems, TLAPS

(* The types, in parts that no step changes all of.                        *)
BoardType == board \in [owner : {"app", "us"}, count : Nat, item : Item]

CopiesType == macCopies \in Nat /\ clientCopies \in Nat

ClientType ==
  /\ clientBoard \in [item : Item, whose : {"own", "offered"}]
  /\ pasted \in {"nothing", "asked", "stale", "refused"}

PollType ==
  /\ lastChangeCount \in Nat
  /\ poll \in [at : {"off", "idle", "compare", "read", "swap", "advertise"},
               count : Nat, item : Item]

LoopType == loop \in [at : {"idle", "set", "note"}, item : Item]

PeerType ==
  /\ clipReady \in BOOLEAN /\ clipReqFormat \in {"unset", "unicode", "ansi"}
  /\ held \in Item

WireType == toServer \in Seq(Message) /\ toClient \in Seq(Message)

LEMMA TypeParts ==
  ClipTypeOK <=> /\ BoardType /\ CopiesType /\ ClientType /\ PollType /\ LoopType
                 /\ PeerType /\ WireType /\ raced \in SUBSET Item
BY DEF ClipTypeOK, BoardType, CopiesType, ClientType, PollType, LoopType, PeerType, WireType

-----------------------------------------------------------------------------
(* Items and messages.                                                     *)
LEMMA NothingIsItem == Nothing \in Item /\ Nothing.by = "nobody"
BY DEF Item, Nothing

LEMMA GarbleIsItem == \A item \in Item : Garble(item) \in Item
BY DEF Item, Garble

LEMMA CopyIsItem ==
  \A by \in {"mac", "client"}, n \in Nat, kind \in {"text", "png", "other", "ansi"} :
    [by |-> by, n |-> n, kind |-> kind] \in Item
BY DEF Item

LEMMA FormatValues == \A item \in Item : Format(item) \in {"unicode", "ansi", "png"}
BY DEF Format

LEMMA WantedValues == \A item \in Item : Wanted(item) \in {"unicode", "ansi", "no text"}
BY DEF Wanted

LEMMA ListIsMessage == \A item \in Item : List(item) \in Message
BY DEF Message, List

LEMMA RequestIsMessage == \A f \in {"unicode", "ansi", "png"} : Request(f) \in Message
BY DEF Message, Request

LEMMA DataIsMessage ==
  \A item \in Item, f \in {"unicode", "ansi", "png"} : Data(item, f) \in Message
BY DEF Message, Data

LEMMA FailIsMessage == Fail \in Message
BY DEF Message, Fail

LEMMA MessageFields ==
  ASSUME NEW msg \in Message
  PROVE  /\ msg.type = "list" => msg.item \in Item
         /\ msg.type = "request" => msg.format \in {"unicode", "ansi", "png"}
         /\ msg.type = "data" => msg.item \in Item /\ msg.format \in {"unicode", "ansi", "png"}
BY DEF Message

LEMMA HeadIsMessage ==
  ASSUME NEW queue \in Seq(Message), queue # <<>>
  PROVE  Head(queue) \in Message /\ Tail(queue) \in Seq(Message)
OBVIOUS

LEMMA AppendIsWire ==
  ASSUME NEW queue \in Seq(Message), NEW msg \in Message
  PROVE  Append(queue, msg) \in Seq(Message)
OBVIOUS

-----------------------------------------------------------------------------
(* Types, variable by variable.                                            *)
Types == /\ BoardType /\ CopiesType /\ ClientType /\ PollType /\ LoopType
         /\ PeerType /\ WireType /\ raced \in SUBSET Item

LEMMA BoardStep ==
  ASSUME Types, [Next]_vars
  PROVE  \/ UNCHANGED board
         \/ \E owner \in {"app", "us"} : board' = Cleared(owner)
         \/ \E item \in Item : board' = [board EXCEPT !.item = item]
<1> USE DEF macVars
<1>1. CASE AppWrites
  <2>1. PICK kind \in {"text", "png", "other"} :
          board' = [board EXCEPT !.item = [by |-> "mac", n |-> macCopies, kind |-> kind]]
    BY <1>1 DEF AppWrites
  <2>2. [by |-> "mac", n |-> macCopies, kind |-> kind] \in Item
    BY CopyIsItem DEF Types, CopiesType
  <2>3. QED
    BY <2>1, <2>2
<1>2. CASE SetString
  <2>1. loop.item \in Item
    BY DEF Types, LoopType
  <2>2. QED
    BY <1>2, <2>1 DEF SetString
<1>3. CASE AppClears
  BY <1>3 DEF AppClears
<1>4. CASE ClientFormatData
  BY <1>4 DEF ClientFormatData
<1>5. CASE \/ ClientStep \/ ClientReads \/ StartSync \/ PollStep
  BY <1>5 DEF ClientStep, ClientCopies, ClientPastes, ClientReads, ClientGetsList,
     ClientGetsRequest, ClientGetsAnswer, FromServer, StartSync, PollStep, PollReadsCount,
     PollCompares, PollReadsItem, PollSwaps, PollDefers, PollAdvertises, Polling
<1>6. CASE \/ ClientCapabilities \/ ClientFormatList \/ ClientFormatDataFails
           \/ ClientFormatDataRequest \/ NoteCount \/ UNCHANGED vars
  BY <1>6 DEF ClientCapabilities, ClientFormatList, ClientFormatDataFails,
     ClientFormatDataRequest, NoteCount, vars
<1>7. QED
  BY <1>1, <1>2, <1>3, <1>4, <1>5, <1>6 DEF Next, MacStep, LoopStep

LEMMA BoardTypeStep == Types /\ [Next]_vars => BoardType'
<1> SUFFICES ASSUME Types, [Next]_vars PROVE BoardType'
  OBVIOUS
<1>1. BoardType
  BY DEF Types
<1>2. QED
  BY <1>1, BoardStep, NothingIsItem DEF BoardType, Cleared

LEMMA CopiesTypeStep == CopiesType /\ [Next]_vars => CopiesType'
<1> SUFFICES ASSUME CopiesType, [Next]_vars PROVE CopiesType'
  OBVIOUS
<1>1. /\ macCopies' \in {macCopies, macCopies + 1}
      /\ clientCopies' \in {clientCopies, clientCopies + 1}
  BY DEF Next, MacStep, AppClears, AppWrites, ClientStep, ClientCopies, ClientPastes, ClientReads,
     ClientGetsList, ClientGetsRequest, ClientGetsAnswer, FromServer, LoopStep,
     ClientCapabilities, ClientFormatList, ClientFormatData, ClientFormatDataFails,
     ClientFormatDataRequest, FromClient, SetString, NoteCount, StartSync, PollStep,
     PollReadsCount, PollCompares, PollReadsItem, PollSwaps, PollDefers, PollAdvertises, Polling,
     vars, macVars, clientVars
<1>2. QED
  BY <1>1 DEF CopiesType

LEMMA ClientCopyStep ==
  ASSUME clientCopies \in Nat, ClientCopies
  PROVE  \E item \in Item : /\ clientBoard' = [item |-> item, whose |-> "own"]
                            /\ toServer' = Append(toServer, List(item))
<1> DEFINE Copy(kind) == [by |-> "client", n |-> clientCopies + 1, kind |-> kind]
<1>1. \E kind \in {"text", "ansi", "other"} :
        /\ clientBoard' = [item |-> Copy(kind), whose |-> "own"]
        /\ toServer' = Append(toServer, List(Copy(kind)))
  BY DEF ClientCopies
<1>2. \A kind \in {"text", "ansi", "other"} : Copy(kind) \in Item
  BY DEF Item
<1>3. QED
  <2> HIDE DEF Copy
  <2>1. QED
    BY <1>1, <1>2

LEMMA ClientTypeStep == Types /\ [Next]_vars => ClientType'
<1> SUFFICES ASSUME Types, [Next]_vars PROVE ClientType'
  OBVIOUS
<1>1. ClientType /\ WireType /\ CopiesType
  BY DEF Types
<1>2. CASE ClientCopies
  <2>1. \E item \in Item : clientBoard' = [item |-> item, whose |-> "own"]
    BY <1>1, <1>2, ClientCopyStep DEF CopiesType
  <2>2. pasted' \in {"stale", "nothing"}
    BY <1>2 DEF ClientCopies
  <2>3. QED
    BY <2>1, <2>2 DEF ClientType
<1>3. CASE ClientGetsList
  <2>1. Head(toClient).item \in Item
    BY <1>1, <1>3, HeadIsMessage, MessageFields DEF ClientGetsList, FromServer, WireType
  <2>2. QED
    BY <1>3, <2>1 DEF ClientGetsList, ClientType
<1>4. CASE ClientPastes \/ ClientGetsRequest \/ ClientGetsAnswer
  BY <1>1, <1>4 DEF ClientPastes, ClientGetsRequest, ClientGetsAnswer, ClientType
<1>5. CASE UNCHANGED clientVars
  BY <1>1, <1>5 DEF ClientType, clientVars
<1>6. CASE MacStep \/ LoopStep \/ StartSync \/ PollStep \/ UNCHANGED vars
  BY <1>5, <1>6 DEF MacStep, AppClears, AppWrites, LoopStep, ClientCapabilities,
     ClientFormatList, ClientFormatData, ClientFormatDataFails, ClientFormatDataRequest,
     FromClient, SetString, NoteCount, StartSync, PollStep, PollReadsCount, PollCompares,
     PollReadsItem, PollSwaps, PollDefers, PollAdvertises, Polling, vars
<1>7. QED
  BY <1>2, <1>3, <1>4, <1>6 DEF Next, ClientStep, ClientReads

LEMMA PollTypeStep == Types /\ [Next]_vars => PollType'
<1> SUFFICES ASSUME Types, [Next]_vars PROVE PollType'
  OBVIOUS
<1>1. PollType /\ BoardType
  BY DEF Types
<1> DEFINE At == {"off", "idle", "compare", "read", "swap", "advertise"}
<1>a. IdlePoll \in [at : At, count : Nat, item : Item]
  BY NothingIsItem DEF IdlePoll
<1>b. \A at \in At, n \in Nat, item \in Item :
        /\ [poll EXCEPT !.at = at, !.item = item] \in [at : At, count : Nat, item : Item]
        /\ [poll EXCEPT !.at = at, !.count = n] \in [at : At, count : Nat, item : Item]
        /\ [poll EXCEPT !.at = at] \in [at : At, count : Nat, item : Item]
        /\ [IdlePoll EXCEPT !.at = at] \in [at : At, count : Nat, item : Item]
        /\ [IdlePoll EXCEPT !.at = at, !.count = n] \in [at : At, count : Nat, item : Item]
  BY <1>1, <1>a DEF PollType
<1>d. \A item \in Item : Skipped(item) \in [at : At, count : Nat, item : Item]
  BY DEF Skipped, IdlePoll
<1>c. board.count \in Nat /\ board.item \in Item /\ poll.count \in Nat /\ lastChangeCount \in Nat
  BY <1>1 DEF BoardType, PollType
<1>2. CASE StartSync \/ PollStep \/ NoteCount
  <2>1. CASE StartSync
    BY <1>a, <1>c, <2>1 DEF StartSync, PollType
  <2>2. CASE PollReadsCount
    <3>1. /\ poll' = [IdlePoll EXCEPT !.at = "compare", !.count = board.count]
          /\ lastChangeCount' = lastChangeCount
      BY <2>2 DEF PollReadsCount
    <3>2. [IdlePoll EXCEPT !.at = "compare", !.count = board.count]
            \in [at : At, count : Nat, item : Item]
      BY <1>a, <1>c
    <3>3. QED
      BY <1>c, <3>1, <3>2 DEF PollType
  <2>3. CASE PollCompares
    <3>1. /\ poll' \in {IdlePoll, [IdlePoll EXCEPT !.at = "read"]}
          /\ lastChangeCount' \in {lastChangeCount, poll.count}
      BY <2>3 DEF PollCompares
    <3>2. [IdlePoll EXCEPT !.at = "read"] \in [at : At, count : Nat, item : Item]
      BY <1>a
    <3>3. QED
      BY <1>a, <1>c, <3>1, <3>2 DEF PollType
  <2>4. CASE PollReadsItem
    <3>1. [poll EXCEPT !.at = "swap", !.item = board.item] \in [at : At, count : Nat, item : Item]
      BY <1>1, <1>c DEF PollType
    <3>a. Found \subseteq [at : At, count : Nat, item : Item]
      BY <1>a, <1>c, <1>d, <3>1 DEF Found
    <3>2. QED
      BY <1>c, <2>4, <3>a DEF PollReadsItem, PollType
  <2>5. CASE PollSwaps
    BY <1>b, <1>c, <2>5 DEF PollSwaps, PollType
  <2>6. CASE PollDefers \/ PollAdvertises
    BY <1>a, <1>c, <2>6 DEF PollDefers, PollAdvertises, PollType
  <2>7. CASE NoteCount
    BY <1>1, <1>c, <2>7 DEF NoteCount, PollType
  <2>8. QED
    BY <1>2, <2>1, <2>2, <2>3, <2>4, <2>5, <2>6, <2>7 DEF PollStep
<1>3. CASE UNCHANGED <<poll, lastChangeCount>>
  BY <1>1, <1>3 DEF PollType
<1>4. CASE \/ MacStep \/ ClientStep \/ ClientReads \/ ClientCapabilities \/ ClientFormatList
           \/ ClientFormatData \/ ClientFormatDataFails \/ ClientFormatDataRequest \/ SetString
           \/ UNCHANGED vars
  BY <1>3, <1>4 DEF MacStep, AppClears, AppWrites, ClientStep, ClientCopies, ClientPastes,
     ClientReads, ClientGetsList, ClientGetsRequest, ClientGetsAnswer, FromServer,
     ClientCapabilities, ClientFormatList, ClientFormatData, ClientFormatDataFails,
     ClientFormatDataRequest, FromClient, SetString, vars
<1>5. QED
  BY <1>2, <1>4 DEF Next, LoopStep

LEMMA DecodedIsItem ==
  ASSUME NEW data, data.item \in Item, NEW item \in Decoded(data)
  PROVE  item \in Item
BY NothingIsItem, GarbleIsItem DEF Decoded

LEMMA LoopTypeStep == Types /\ [Next]_vars => LoopType'
<1> SUFFICES ASSUME Types, [Next]_vars PROVE LoopType'
  OBVIOUS
<1>1. LoopType /\ WireType
  BY DEF Types
<1>2. CASE ClientFormatData
  <2>1. Head(toServer).item \in Item
    BY <1>1, <1>2, HeadIsMessage, MessageFields DEF ClientFormatData, FromClient, WireType
  <2>2. CASE UNCHANGED loop
    BY <1>1, <2>2 DEF LoopType
  <2>3. CASE \E item \in Decoded(Head(toServer)) :
               loop' = IF item = Nothing THEN IdleLoop ELSE [at |-> "set", item |-> item]
    BY <2>1, <2>3, DecodedIsItem, NothingIsItem DEF LoopType, IdleLoop
  <2>4. QED
    BY <1>2, <2>2, <2>3 DEF ClientFormatData
<1>3. CASE SetString \/ NoteCount
  BY <1>1, <1>3, NothingIsItem DEF SetString, NoteCount, LoopType, IdleLoop
<1>4. CASE UNCHANGED loop
  BY <1>1, <1>4 DEF LoopType
<1>5. CASE \/ MacStep \/ ClientStep \/ ClientReads \/ ClientCapabilities \/ ClientFormatList
           \/ ClientFormatDataFails \/ ClientFormatDataRequest \/ StartSync \/ PollStep
           \/ UNCHANGED vars
  BY <1>4, <1>5 DEF MacStep, AppClears, AppWrites, ClientStep, ClientCopies, ClientPastes,
     ClientReads, ClientGetsList, ClientGetsRequest, ClientGetsAnswer, FromServer,
     ClientCapabilities, ClientFormatList, ClientFormatDataFails, ClientFormatDataRequest,
     StartSync, PollStep, PollReadsCount, PollCompares, PollReadsItem, PollSwaps, PollDefers,
     PollAdvertises, Polling, vars
<1>6. QED
  BY <1>2, <1>3, <1>5 DEF Next, LoopStep

LEMMA PeerTypeStep == Types /\ [Next]_vars => PeerType'
<1> SUFFICES ASSUME Types, [Next]_vars PROVE PeerType'
  OBVIOUS
<1>1. PeerType /\ WireType /\ PollType
  BY DEF Types
<1>2. CASE ClientFormatList
  <2>1. Head(toServer).item \in Item
    BY <1>1, <1>2, HeadIsMessage, MessageFields DEF ClientFormatList, FromClient, WireType
  <2>2. clipReqFormat' \in {clipReqFormat, "unicode", "ansi"}
    BY <1>2, <2>1, WantedValues DEF ClientFormatList
  <2>3. clipReady' = TRUE /\ held' = held
    BY <1>2 DEF ClientFormatList
  <2>4. QED
    BY <1>1, <2>2, <2>3 DEF PeerType
<1>3. CASE PollSwaps
  <2>1. poll.item \in Item
    BY <1>1 DEF PollType
  <2>2. QED
    BY <1>1, <1>3, <2>1 DEF PollSwaps, Polling, PeerType
<1>4. CASE ClientCapabilities
  BY <1>1, <1>4 DEF ClientCapabilities, PeerType
<1>5. CASE UNCHANGED peerVars
  BY <1>1, <1>5 DEF PeerType, peerVars
<1>6. CASE \/ MacStep \/ ClientStep \/ ClientReads \/ ClientFormatData \/ ClientFormatDataFails
           \/ ClientFormatDataRequest \/ SetString \/ NoteCount \/ StartSync
           \/ PollReadsCount \/ PollCompares \/ PollReadsItem \/ PollDefers \/ PollAdvertises
           \/ UNCHANGED vars
  BY <1>5, <1>6 DEF MacStep, AppClears, AppWrites, ClientStep, ClientCopies, ClientPastes,
     ClientReads, ClientGetsList, ClientGetsRequest, ClientGetsAnswer, FromServer,
     ClientFormatData, ClientFormatDataFails, ClientFormatDataRequest, SetString, NoteCount,
     StartSync, PollReadsCount, PollCompares, PollReadsItem, PollDefers, PollAdvertises, Polling,
     vars, peerVars
<1>7. QED
  BY <1>2, <1>3, <1>4, <1>6 DEF Next, LoopStep, PollStep

LEMMA WireStep ==
  ASSUME Types, [Next]_vars
  PROVE  /\ \/ toServer' = toServer
            \/ toServer # <<>> /\ toServer' = Tail(toServer)
            \/ \E msg \in Message : toServer' = Append(toServer, msg)
         /\ \/ toClient' = toClient
            \/ toClient # <<>> /\ toClient' = Tail(toClient)
            \/ \E msg \in Message : toClient' = Append(toClient, msg)
<1>1. /\ clientCopies \in Nat /\ clientBoard.item \in Item /\ poll.item \in Item /\ held \in Item
      /\ WireType
  BY DEF Types, CopiesType, ClientType, PollType, PeerType
<1>2. CASE ClientCopies
  <2>1. \E item \in Item : toServer' = Append(toServer, List(item))
    BY <1>1, <1>2, ClientCopyStep
  <2>2. QED
    BY <1>2, <2>1, ListIsMessage DEF ClientCopies
<1>3. CASE ClientPastes
  BY <1>1, <1>3, FormatValues, RequestIsMessage DEF ClientPastes
<1>4. CASE ClientGetsRequest
  <2>1. Head(toClient).format \in {"unicode", "ansi", "png"}
    BY <1>1, <1>4, HeadIsMessage, MessageFields DEF ClientGetsRequest, FromServer, WireType
  <2>2. QED
    BY <1>1, <1>4, <2>1, DataIsMessage, FailIsMessage DEF ClientGetsRequest, FromServer
<1>5. CASE ClientGetsList \/ ClientGetsAnswer
  BY <1>5 DEF ClientGetsList, ClientGetsAnswer, FromServer
<1>6. CASE ClientFormatList
  <2>1. Head(toServer).item \in Item
    BY <1>1, <1>6, HeadIsMessage, MessageFields DEF ClientFormatList, FromClient, WireType
  <2>2. QED
    BY <1>6, <2>1, WantedValues, RequestIsMessage DEF ClientFormatList, FromClient
<1>7. CASE ClientFormatDataRequest
  <2>1. Head(toServer).format \in {"unicode", "ansi", "png"}
    BY <1>1, <1>7, HeadIsMessage, MessageFields DEF ClientFormatDataRequest, FromClient, WireType
  <2>2. QED
    BY <1>1, <1>7, <2>1, DataIsMessage, FailIsMessage DEF ClientFormatDataRequest, FromClient
<1>8. CASE PollAdvertises
  BY <1>1, <1>8, ListIsMessage DEF PollAdvertises, Polling
<1>9. CASE ClientCapabilities \/ ClientFormatData \/ ClientFormatDataFails
  BY <1>9 DEF ClientCapabilities, ClientFormatData, ClientFormatDataFails, FromClient, peerVars
<1>10. CASE \/ MacStep \/ SetString \/ NoteCount \/ StartSync \/ PollReadsCount \/ PollCompares
            \/ PollReadsItem \/ PollSwaps \/ PollDefers \/ UNCHANGED vars
  BY <1>10 DEF MacStep, AppClears, AppWrites, SetString, NoteCount, StartSync, PollReadsCount,
     PollCompares, PollReadsItem, PollSwaps, PollDefers, Polling, vars
<1>11. QED
  BY <1>2, <1>3, <1>4, <1>5, <1>6, <1>7, <1>8, <1>9, <1>10
     DEF Next, ClientStep, ClientReads, LoopStep, PollStep

LEMMA TailIsTyped == \A queue \in Seq(Message) : queue # <<>> => Tail(queue) \in Seq(Message)
OBVIOUS

LEMMA WireTypeStep == Types /\ [Next]_vars => WireType'
<1> SUFFICES ASSUME Types, [Next]_vars PROVE WireType'
  OBVIOUS
<1>1. toServer \in Seq(Message) /\ toClient \in Seq(Message)
  BY DEF Types, WireType
<1>2. QED
  BY <1>1, WireStep, TailIsTyped, AppendIsWire DEF WireType

LEMMA RacedTypeStep == Types /\ [Next]_vars => raced' \in SUBSET Item
<1> SUFFICES ASSUME Types, [Next]_vars PROVE raced' \in SUBSET Item
  OBVIOUS
<1>1. raced \in SUBSET Item /\ LoopType /\ WireType
  BY DEF Types
<1>2. CASE ClientFormatData
  <2>1. Head(toServer).item \in Item
    BY <1>1, <1>2, HeadIsMessage, MessageFields DEF ClientFormatData, FromClient, WireType
  <2>2. \/ UNCHANGED raced
        \/ \E item \in Decoded(Head(toServer)) : raced' \in {raced, raced \cup {item}}
    BY <1>2 DEF ClientFormatData
  <2>3. QED
    BY <1>1, <2>1, <2>2, DecodedIsItem
<1>3. CASE PollReadsCount
  <2>1. loop.item \in Item
    BY <1>1 DEF LoopType
  <2>2. QED
    BY <1>1, <1>3, <2>1 DEF PollReadsCount
<1>4. CASE UNCHANGED raced
  BY <1>1, <1>4
<1>5. CASE \/ MacStep \/ ClientStep \/ ClientReads \/ ClientCapabilities \/ ClientFormatList
           \/ ClientFormatDataFails \/ ClientFormatDataRequest \/ SetString \/ NoteCount
           \/ StartSync \/ PollCompares \/ PollReadsItem \/ PollSwaps \/ PollDefers
           \/ PollAdvertises \/ UNCHANGED vars
  BY <1>4, <1>5 DEF MacStep, AppClears, AppWrites, ClientStep, ClientCopies, ClientPastes,
     ClientReads, ClientGetsList, ClientGetsRequest, ClientGetsAnswer, FromServer,
     ClientCapabilities, ClientFormatList, ClientFormatDataFails, ClientFormatDataRequest,
     SetString, NoteCount, StartSync, PollCompares, PollReadsItem, PollSwaps, PollDefers,
     PollAdvertises, Polling, vars
<1>6. QED
  BY <1>2, <1>3, <1>5 DEF Next, LoopStep, PollStep

LEMMA TypeStep == Types /\ [Next]_vars => Types'
<1> SUFFICES ASSUME Types, [Next]_vars PROVE Types'
  OBVIOUS
<1>1. CopiesType /\ BoardType'
  BY BoardTypeStep DEF Types
<1>2. CopiesType' /\ ClientType' /\ PollType'
  BY <1>1, CopiesTypeStep, ClientTypeStep, PollTypeStep
<1>3. LoopType' /\ PeerType' /\ WireType' /\ (raced \in SUBSET Item)'
  BY LoopTypeStep, PeerTypeStep, WireTypeStep, RacedTypeStep
<1>4. QED
  BY <1>1, <1>2, <1>3 DEF Types

-----------------------------------------------------------------------------
(* Lists in a queue.                                                       *)
LEMMA ListsOfAppend ==
  ASSUME NEW queue \in Seq(Message), NEW msg \in Message
  PROVE  Lists(Append(queue, msg)) =
           IF msg.type = "list" THEN Lists(queue) \cup {Len(queue) + 1} ELSE Lists(queue)
BY DEF Lists

LEMMA ListsOfTail ==
  ASSUME NEW queue \in Seq(Message), queue # <<>>
  PROVE  /\ \A i \in Lists(Tail(queue)) :
              i \in Nat /\ i + 1 \in Lists(queue) /\ Tail(queue)[i] = queue[i + 1]
         /\ \A i \in Lists(queue) : i # 1 => i - 1 \in Lists(Tail(queue))
         /\ 1 \in Lists(queue) <=> Head(queue).type = "list"
BY DEF Lists

(* The item of the last list in a queue, if there is one.                  *)
LastIs(queue, item) ==
  \A i \in Lists(queue) : (\A j \in Lists(queue) : j <= i) => queue[i].item = item

LEMMA LastOfAppend ==
  ASSUME NEW queue \in Seq(Message), NEW msg \in Message, NEW item
  PROVE  /\ msg.type # "list" => (LastIs(Append(queue, msg), item) <=> LastIs(queue, item))
         /\ msg.type = "list" => (LastIs(Append(queue, msg), item) <=> msg.item = item)
  BY ListsOfAppend DEF LastIs, Lists

LEMMA AppendOther ==
  ASSUME NEW queue \in Seq(Message), NEW msg \in Message, msg.type # "list", NEW item
  PROVE  /\ LastIs(Append(queue, msg), item) <=> LastIs(queue, item)
         /\ Lists(Append(queue, msg)) = Lists(queue)
BY ListsOfAppend, LastOfAppend

LEMMA AppendList ==
  ASSUME NEW queue \in Seq(Message), NEW item \in Item
  PROVE  LastIs(Append(queue, List(item)), item) /\ Lists(Append(queue, List(item))) # {}
<1>1. List(item) \in Message /\ List(item).type = "list" /\ List(item).item = item
  BY ListIsMessage DEF List
<1>2. QED
  BY <1>1, ListsOfAppend, LastOfAppend

LEMMA LastOfTail ==
  ASSUME NEW queue \in Seq(Message), queue # <<>>, NEW item
  PROVE  /\ LastIs(queue, item) => LastIs(Tail(queue), item)
         /\ LastIs(queue, item) /\ Lists(queue) # {} /\ Lists(Tail(queue)) = {}
              => Head(queue).type = "list" /\ Head(queue).item = item
<1>1. /\ Lists(queue) \subseteq Nat /\ Lists(Tail(queue)) \subseteq Nat
      /\ \A i \in Lists(queue) : i >= 1
      /\ \A i \in Lists(Tail(queue)) : i >= 1
  BY DEF Lists
<1>2. ASSUME LastIs(queue, item) PROVE LastIs(Tail(queue), item)
  <2> SUFFICES ASSUME NEW i \in Lists(Tail(queue)), \A j \in Lists(Tail(queue)) : j <= i
               PROVE  Tail(queue)[i].item = item
    BY DEF LastIs
  <2>1. i \in Nat /\ i + 1 \in Lists(queue) /\ Tail(queue)[i] = queue[i + 1]
    BY ListsOfTail
  <2>2. \A j \in Lists(queue) : j <= i + 1
    <3> TAKE j \in Lists(queue)
    <3>1. CASE j = 1
      BY <1>1, <2>1, <3>1
    <3>2. CASE j # 1
      <4>1. j - 1 \in Lists(Tail(queue))
        BY <3>2, ListsOfTail
      <4>2. j - 1 <= i
        BY <4>1
      <4>3. QED
        BY <1>1, <2>1, <4>2
    <3>3. QED
      BY <3>1, <3>2
  <2>3. QED
    BY <1>2, <2>1, <2>2 DEF LastIs
<1>3. ASSUME LastIs(queue, item), Lists(queue) # {}, Lists(Tail(queue)) = {}
      PROVE  Head(queue).type = "list" /\ Head(queue).item = item
  <2>1. \A i \in Lists(queue) : i = 1
    BY <1>3, ListsOfTail
  <2>2. 1 \in Lists(queue) /\ \A j \in Lists(queue) : j <= 1
    BY <1>3, <2>1
  <2>3. queue[1].item = item
    BY <1>3, <2>2 DEF LastIs
  <2>4. QED
    BY <2>2, <2>3, ListsOfTail
<1>4. QED
  BY <1>2, <1>3

-----------------------------------------------------------------------------
(* What the client is offered.                                             *)
Offer ==
  /\ NoListBeforeReady
  /\ OfferIsHeld
  /\ poll.at = "advertise" => poll.item = held

(* OfferIsHeld, with nothing on its way to the peer's second section.      *)
Settled ==
  /\ LastIs(toClient, held)
  /\ Lists(toClient) = {} => ClientOwns \/ clientBoard.item = held

LEMMA OfferParts ==
  /\ OfferIsHeld <=> (poll.at = "advertise" /\ clipReady) \/ Settled
  /\ OfferIsHeld' <=> (poll'.at = "advertise" /\ clipReady') \/ Settled'
BY DEF OfferIsHeld, Settled, LastIs

(* Before the channel is ready there is nothing to keep.                   *)
LEMMA UnreadySettled == (Lists(toClient) = {} /\ ClientOwns)' => Settled'
BY DEF Settled, LastIs

(* What the poll's thread has, after each of its steps.                    *)
LEMMA PollAfter ==
  ASSUME PollType
  PROVE  /\ StartSync \/ PollDefers \/ PollAdvertises => poll'.at = "idle"
         /\ PollReadsCount => poll'.at = "compare" /\ poll'.count = board.count
         /\ PollCompares => \/ poll.count = lastChangeCount /\ poll'.at = "idle"
                            \/ poll.count # lastChangeCount /\ poll'.at = "read"
         /\ PollReadsItem => \/ poll'.at = "idle"
                             \/ poll'.at = "swap" /\ poll'.item = board.item
         /\ PollSwaps => poll'.at = "advertise" /\ poll'.item = poll.item
<1>1. /\ IdlePoll.at = "idle" /\ [IdlePoll EXCEPT !.at = "read"].at = "read"
      /\ Skipped(board.item).at = "idle"
  BY DEF IdlePoll, Skipped
<1>2. /\ [IdlePoll EXCEPT !.at = "compare", !.count = board.count].at = "compare"
      /\ [IdlePoll EXCEPT !.at = "compare", !.count = board.count].count = board.count
  BY DEF IdlePoll
<1>3. /\ [poll EXCEPT !.at = "swap", !.item = board.item].at = "swap"
      /\ [poll EXCEPT !.at = "swap", !.item = board.item].item = board.item
  BY DEF PollType
<1>4. /\ [poll EXCEPT !.at = "advertise"].at = "advertise"
      /\ [poll EXCEPT !.at = "advertise"].item = poll.item
  BY DEF PollType
<1>5. StartSync \/ PollDefers \/ PollAdvertises => poll'.at = "idle"
  BY <1>1 DEF StartSync, PollDefers, PollAdvertises
<1>6. PollReadsCount => poll'.at = "compare" /\ poll'.count = board.count
  BY <1>2 DEF PollReadsCount
<1>7. PollCompares => \/ poll.count = lastChangeCount /\ poll'.at = "idle"
                      \/ poll.count # lastChangeCount /\ poll'.at = "read"
  BY <1>1 DEF PollCompares
<1>8. PollReadsItem => \/ poll'.at = "idle"
                       \/ poll'.at = "swap" /\ poll'.item = board.item
  BY <1>1, <1>3 DEF PollReadsItem, Found
<1>9. PollSwaps => poll'.at = "advertise" /\ poll'.item = poll.item
  BY <1>4 DEF PollSwaps
<1>10. QED
  BY <1>5, <1>6, <1>7, <1>8, <1>9

LEMMA OfferStep == Types /\ Offer /\ [Next]_vars => Offer'
<1> SUFFICES ASSUME Types, Offer, [Next]_vars PROVE Offer'
  OBVIOUS
<1>1. /\ toClient \in Seq(Message) /\ PollType /\ held \in Item /\ clipReady \in BOOLEAN
      /\ clientBoard \in [item : Item, whose : {"own", "offered"}]
  BY DEF Types, WireType, PeerType, ClientType
<1>2. CASE ClientCopies
  <2>1. ClientOwns'
    BY <1>2 DEF ClientCopies, ClientOwns
  <2>2. UNCHANGED <<toClient, clipReady, held, poll>>
    BY <1>2 DEF ClientCopies, peerVars
  <2>3. Settled => Settled'
    BY <2>1, <2>2 DEF Settled, LastIs
  <2>4. QED
    BY <2>1, <2>2, <2>3, OfferParts DEF Offer, NoListBeforeReady
<1>3. CASE ClientGetsList
  <2>1. /\ toClient # <<>> /\ toClient' = Tail(toClient) /\ Head(toClient).type = "list"
        /\ clientBoard'.item = Head(toClient).item
        /\ UNCHANGED <<clipReady, held, poll>>
    BY <1>3 DEF ClientGetsList, FromServer, peerVars
  <2>2. Lists(toClient) # {}
    BY <1>1, <2>1, ListsOfTail
  <2>3. clipReady
    BY <2>2 DEF Offer, NoListBeforeReady
  <2>4. Settled => Settled'
    BY <1>1, <2>1, <2>2, LastOfTail DEF Settled
  <2>5. QED
    BY <2>1, <2>3, <2>4, OfferParts DEF Offer, NoListBeforeReady
<1>4. CASE ClientGetsRequest \/ ClientGetsAnswer
  <2>1. /\ toClient # <<>> /\ toClient' = Tail(toClient) /\ Head(toClient).type # "list"
        /\ UNCHANGED <<clipReady, held, poll, clientBoard>>
    BY <1>4 DEF ClientGetsRequest, ClientGetsAnswer, FromServer, peerVars
  <2>2. /\ Lists(toClient) = {} => Lists(Tail(toClient)) = {}
    BY <1>1, <2>1, ListsOfTail
  <2>3. Settled => Settled'
    BY <1>1, <2>1, LastOfTail DEF Settled, ClientOwns
  <2>4. QED
    BY <2>1, <2>2, <2>3, OfferParts DEF Offer, NoListBeforeReady, ClientOwns
<1>5. CASE ClientCapabilities
  <2>1. clipReady' /\ UNCHANGED <<toClient, held, poll, clientBoard>>
    BY <1>5 DEF ClientCapabilities, FromClient, clientVars
  <2>2. Settled => Settled'
    BY <2>1 DEF Settled, LastIs, ClientOwns
  <2>3. QED
    BY <2>1, <2>2, OfferParts DEF Offer, NoListBeforeReady
<1>6. CASE ClientFormatList
  <2>1. clipReady' /\ UNCHANGED <<held, poll, clientBoard>>
    BY <1>6 DEF ClientFormatList, FromClient, clientVars
  <2>2. /\ \/ UNCHANGED toClient
           \/ \E want \in {"unicode", "ansi"} : toClient' = Append(toClient, Request(want))
    <3>1. Head(toServer).item \in Item
      BY <1>6, HeadIsMessage, MessageFields
         DEF ClientFormatList, FromClient, Types, WireType
    <3>2. QED
      BY <1>6, <3>1, WantedValues DEF ClientFormatList
  <2>3. \A want \in {"unicode", "ansi"} : Request(want) \in Message /\ Request(want).type # "list"
    BY RequestIsMessage DEF Request
  <2>4. (LastIs(toClient, held) <=> LastIs(toClient', held)) /\ Lists(toClient') = Lists(toClient)
    <3>1. CASE UNCHANGED toClient
      BY <3>1
    <3>2. ASSUME NEW want \in {"unicode", "ansi"}, toClient' = Append(toClient, Request(want))
          PROVE  (LastIs(toClient, held) <=> LastIs(toClient', held))
                   /\ Lists(toClient') = Lists(toClient)
      BY <1>1, <2>3, <3>2, AppendOther
    <3>3. QED
      BY <2>2, <3>1, <3>2
  <2>5. Settled => Settled'
    BY <2>1, <2>4 DEF Settled, ClientOwns
  <2>6. QED
    BY <2>1, <2>5, OfferParts DEF Offer, NoListBeforeReady
<1>7. CASE ClientFormatDataRequest
  <2>1. UNCHANGED <<held, poll, clientBoard, clipReady>>
    BY <1>7 DEF ClientFormatDataRequest, FromClient, clientVars, peerVars
  <2>2. \E msg \in Message : msg.type # "list" /\ toClient' = Append(toClient, msg)
    <3>1. Head(toServer).format \in {"unicode", "ansi", "png"}
      BY <1>7, HeadIsMessage, MessageFields
         DEF ClientFormatDataRequest, FromClient, Types, WireType
    <3>2. \A f \in {"unicode", "ansi", "png"} :
            Data(held, f) \in Message /\ Data(held, f).type # "list"
      BY <1>1, DataIsMessage DEF Data
    <3>3. Fail \in Message /\ Fail.type # "list"
      BY FailIsMessage DEF Fail
    <3>4. \/ toClient' = Append(toClient, Data(held, Head(toServer).format))
          \/ toClient' = Append(toClient, Fail)
      BY <1>7 DEF ClientFormatDataRequest
    <3>5. QED
      BY <3>1, <3>2, <3>3, <3>4
  <2>3. (LastIs(toClient, held) <=> LastIs(toClient', held)) /\ Lists(toClient') = Lists(toClient)
    BY <1>1, <2>2, AppendOther
  <2>4. Settled => Settled'
    BY <2>1, <2>3 DEF Settled, ClientOwns
  <2>5. QED
    BY <2>1, <2>3, <2>4, OfferParts DEF Offer, NoListBeforeReady, ClientOwns
<1>8. CASE PollSwaps
  <2>1. /\ UNCHANGED <<toClient, clientBoard, clipReady>>
        /\ held' = poll.item /\ poll' = [poll EXCEPT !.at = "advertise"]
    BY <1>8 DEF PollSwaps, Polling, clientVars
  <2>2. poll'.at = "advertise" /\ poll'.item = held'
    BY <1>1, <2>1 DEF PollType
  <2>3. ~clipReady => Settled'
    BY <2>1, UnreadySettled DEF Offer, NoListBeforeReady, ClientOwns
  <2>4. QED
    BY <1>1, <2>1, <2>2, <2>3, OfferParts DEF Offer, NoListBeforeReady, ClientOwns
<1>9. CASE PollDefers
  <2>1. UNCHANGED <<toClient, clientBoard, clipReady, held>> /\ ~clipReady /\ poll' = IdlePoll
    BY <1>9 DEF PollDefers, Polling, clientVars
  <2>2. Settled'
    BY <2>1, UnreadySettled DEF Offer, NoListBeforeReady, ClientOwns
  <2>3. poll'.at # "advertise"
    BY <2>1 DEF IdlePoll
  <2>4. QED
    BY <2>1, <2>2, <2>3, OfferParts DEF Offer, NoListBeforeReady, ClientOwns
<1>10. CASE PollAdvertises
  <2>1. /\ UNCHANGED <<clientBoard, clipReady, held>> /\ clipReady /\ poll' = IdlePoll
        /\ toClient' = Append(toClient, List(poll.item)) /\ poll.at = "advertise"
    BY <1>10 DEF PollAdvertises, Polling, clientVars
  <2>2. toClient' = Append(toClient, List(held))
    BY <2>1 DEF Offer
  <2>4. LastIs(toClient', held) /\ Lists(toClient') # {}
    BY <1>1, <2>2, AppendList
  <2>5. Settled'
    BY <2>1, <2>4 DEF Settled
  <2>6. poll'.at # "advertise"
    BY <2>1 DEF IdlePoll
  <2>7. QED
    BY <2>1, <2>5, <2>6, OfferParts DEF Offer, NoListBeforeReady
<1>11. CASE StartSync \/ PollReadsCount \/ PollCompares \/ PollReadsItem
  <2>1. UNCHANGED <<toClient, clientBoard, clipReady, held>>
    BY <1>11 DEF StartSync, PollReadsCount, PollCompares, PollReadsItem, Polling, clientVars, peerVars
  <2>2. poll.at # "advertise"
    BY <1>11 DEF StartSync, PollReadsCount, PollCompares, PollReadsItem, Polling
  <2>3. poll'.at # "advertise"
    BY <1>1, <1>11, PollAfter
  <2>4. Settled => Settled'
    BY <2>1 DEF Settled, LastIs, ClientOwns
  <2>5. QED
    BY <2>1, <2>2, <2>3, <2>4, OfferParts DEF Offer, NoListBeforeReady, ClientOwns
<1>12. CASE \/ MacStep \/ ClientPastes \/ ClientFormatData \/ ClientFormatDataFails \/ SetString
            \/ NoteCount \/ UNCHANGED vars
  <2>1. UNCHANGED <<toClient, clientBoard, clipReady, held, poll>>
    BY <1>12 DEF MacStep, AppClears, AppWrites, ClientPastes, ClientFormatData,
       ClientFormatDataFails, FromClient, SetString, NoteCount, clientVars, peerVars, vars
  <2>2. Settled => Settled'
    BY <2>1 DEF Settled, LastIs, ClientOwns
  <2>3. QED
    BY <2>1, <2>2, OfferParts DEF Offer, NoListBeforeReady, ClientOwns
<1>13. QED
  BY <1>2, <1>3, <1>4, <1>5, <1>6, <1>7, <1>8, <1>9, <1>10, <1>11, <1>12
     DEF Next, ClientStep, ClientReads, LoopStep, PollStep

-----------------------------------------------------------------------------
(* What comes back to the client.                                          *)
Echo == EchoInv /\ NoBounce

(* The four parts of EchoInv.                                              *)
ReceiptMet == loop.at # "idle" /\ PollAtIt => loop.item \in raced

BoardIsOurs == board.item.by = "client" => board.owner = "us" /\ loop.at # "set"

BoardIsNoted ==
  board.item.by = "client" /\ board.item \notin raced
  => /\ poll.at # "read"
     /\ poll.at = "compare" => poll.count = lastChangeCount
     /\ \/ loop.at = "note" /\ loop.item = board.item
        \/ board.count = lastChangeCount

PollMet == poll.at \in {"swap", "advertise"} /\ poll.item.by = "client" => poll.item \in raced

LEMMA EchoParts ==
  /\ Echo <=> ReceiptMet /\ BoardIsOurs /\ BoardIsNoted /\ PollMet /\ NoBounce
  /\ Echo' <=> ReceiptMet' /\ BoardIsOurs' /\ BoardIsNoted' /\ PollMet' /\ NoBounce'
BY DEF Echo, EchoInv, ReceiptMet, BoardIsOurs, BoardIsNoted, PollMet

(* A cleared pasteboard holds nothing of the client's.                     *)
LEMMA ClearedIsNobodys ==
  \A owner \in {"app", "us"} : Cleared(owner).item.by = "nobody"
BY NothingIsItem DEF Cleared

LEMMA EchoStep == Types /\ Echo /\ [Next]_vars => Echo'
<1> SUFFICES ASSUME Types, Echo, [Next]_vars PROVE Echo'
  OBVIOUS
<1>1. /\ PollType /\ LoopType /\ raced \in SUBSET Item
      /\ board \in [owner : {"app", "us"}, count : Nat, item : Item]
  BY DEF Types, BoardType
<1>2. ReceiptMet /\ BoardIsOurs /\ BoardIsNoted /\ PollMet /\ NoBounce
  BY EchoParts
<1> USE DEF PollAtIt
<1>3. CASE AppClears
  <2>1. board'.item.by = "nobody" /\ UNCHANGED <<poll, loop, held, raced>>
    BY <1>3, ClearedIsNobodys DEF AppClears, peerVars
  <2>2. QED
    BY <1>2, <2>1, EchoParts DEF ReceiptMet, BoardIsOurs, BoardIsNoted, PollMet, NoBounce
<1>4. CASE AppWrites
  <2>1. board'.item.by = "mac" /\ UNCHANGED <<poll, loop, held, raced>>
    BY <1>1, <1>4 DEF AppWrites, peerVars
  <2>2. QED
    BY <1>2, <2>1, EchoParts DEF ReceiptMet, BoardIsOurs, BoardIsNoted, PollMet, NoBounce
<1>5. CASE ClientFormatData
  <2>1. UNCHANGED <<poll, held, lastChangeCount>>
    BY <1>5 DEF ClientFormatData, FromClient, peerVars
  <2>2. CASE UNCHANGED <<board, loop, raced>>
    BY <1>2, <2>1, <2>2, EchoParts DEF ReceiptMet, BoardIsOurs, BoardIsNoted, PollMet, NoBounce
  <2>3. CASE \E item \in Decoded(Head(toServer)) :
               /\ board' = Cleared("us")
               /\ loop' = IF item = Nothing THEN IdleLoop ELSE [at |-> "set", item |-> item]
               /\ raced' = IF item # Nothing /\ PollAtIt THEN raced \cup {item} ELSE raced
    <3>1. board'.item.by = "nobody" /\ raced \subseteq raced'
      BY <2>3, ClearedIsNobodys
    <3>2. loop'.at # "idle" /\ PollAtIt => loop'.item \in raced'
      BY <2>3 DEF IdleLoop
    <3>3. QED
      BY <1>2, <2>1, <3>1, <3>2, EchoParts
         DEF ReceiptMet, BoardIsOurs, BoardIsNoted, PollMet, NoBounce
  <2>4. QED
    BY <1>5, <2>2, <2>3 DEF ClientFormatData
<1>6. CASE SetString
  <2>1. /\ UNCHANGED <<poll, held, raced, lastChangeCount>>
        /\ loop.at = "set" /\ loop'.at = "note" /\ loop'.item = loop.item
    BY <1>1, <1>6 DEF SetString, LoopType, peerVars
  <2>2. CASE board.owner = "us"
    <3>1. board'.item = loop.item /\ board'.owner = "us"
      BY <1>1, <1>6, <2>2 DEF SetString
    <3>2. QED
      BY <1>2, <2>1, <3>1, EchoParts DEF ReceiptMet, BoardIsOurs, BoardIsNoted, PollMet, NoBounce
  <2>3. CASE board.owner # "us"
    <3>1. board' = board
      BY <1>6, <2>3 DEF SetString
    <3>2. QED
      BY <1>2, <2>1, <2>3, <3>1, EchoParts
         DEF ReceiptMet, BoardIsOurs, BoardIsNoted, PollMet, NoBounce
  <2>4. QED
    BY <2>2, <2>3
<1>7. CASE NoteCount
  <2>1. /\ UNCHANGED <<board, poll, held, raced>>
        /\ loop.at = "note" /\ loop'.at = "idle" /\ lastChangeCount' = board.count
    BY <1>7 DEF NoteCount, IdleLoop, peerVars, macVars
  <2>2. QED
    BY <1>2, <2>1, EchoParts DEF ReceiptMet, BoardIsOurs, BoardIsNoted, PollMet, NoBounce
<1>8. CASE StartSync
  <2>1. UNCHANGED <<board, loop, held, raced>> /\ lastChangeCount' = board.count
    BY <1>8 DEF StartSync, peerVars, macVars
  <2>2. poll'.at = "idle"
    BY <1>1, <1>8, PollAfter
  <2>3. QED
    BY <1>2, <2>1, <2>2, EchoParts DEF ReceiptMet, BoardIsOurs, BoardIsNoted, PollMet, NoBounce
<1>9. CASE PollReadsCount
  <2>1. /\ UNCHANGED <<board, loop, held, lastChangeCount>>
        /\ raced' = IF LoopIdle THEN raced ELSE raced \cup {loop.item}
    BY <1>9 DEF PollReadsCount, Polling, macVars
  <2>2. poll'.at = "compare" /\ poll'.count = board.count
    BY <1>1, <1>9, PollAfter
  <2>3. QED
    BY <1>2, <2>1, <2>2, EchoParts
       DEF ReceiptMet, BoardIsOurs, BoardIsNoted, PollMet, NoBounce, LoopIdle
<1>10. CASE PollCompares
  <2>1. UNCHANGED <<board, loop, held, raced>> /\ poll.at = "compare"
    BY <1>10 DEF PollCompares, Polling, macVars
  <2>2. \/ poll.count = lastChangeCount /\ poll'.at = "idle" /\ UNCHANGED lastChangeCount
        \/ poll.count # lastChangeCount /\ poll'.at = "read"
    BY <1>1, <1>10, PollAfter DEF PollCompares
  <2>3. QED
    BY <1>2, <2>1, <2>2, EchoParts DEF ReceiptMet, BoardIsOurs, BoardIsNoted, PollMet, NoBounce
<1>11. CASE PollReadsItem
  <2>1. UNCHANGED <<board, loop, held, raced, lastChangeCount>> /\ poll.at = "read"
    BY <1>11 DEF PollReadsItem, Polling, macVars
  <2>2. \/ poll'.at = "idle"
        \/ poll'.at = "swap" /\ poll'.item = board.item
    BY <1>1, <1>11, PollAfter
  <2>3. QED
    BY <1>2, <2>1, <2>2, EchoParts DEF ReceiptMet, BoardIsOurs, BoardIsNoted, PollMet, NoBounce
<1>12. CASE PollSwaps
  <2>1. /\ UNCHANGED <<board, loop, raced, lastChangeCount>> /\ held' = poll.item
        /\ poll.at = "swap"
    BY <1>12 DEF PollSwaps, Polling, macVars
  <2>2. poll'.at = "advertise" /\ poll'.item = poll.item
    BY <1>1, <1>12, PollAfter
  <2>3. QED
    BY <1>2, <2>1, <2>2, EchoParts DEF ReceiptMet, BoardIsOurs, BoardIsNoted, PollMet, NoBounce
<1>13. CASE PollDefers \/ PollAdvertises
  <2>1. UNCHANGED <<board, loop, raced, held, lastChangeCount>>
    BY <1>13 DEF PollDefers, PollAdvertises, Polling, macVars
  <2>2. poll'.at = "idle"
    BY <1>1, <1>13, PollAfter
  <2>3. QED
    BY <1>2, <2>1, <2>2, EchoParts DEF ReceiptMet, BoardIsOurs, BoardIsNoted, PollMet, NoBounce
<1>14. CASE \/ ClientStep \/ ClientReads \/ ClientCapabilities \/ ClientFormatList
            \/ ClientFormatDataFails \/ ClientFormatDataRequest \/ UNCHANGED vars
  <2>1. UNCHANGED <<board, poll, loop, held, raced, lastChangeCount>>
    BY <1>14 DEF ClientStep, ClientCopies, ClientPastes, ClientReads, ClientGetsList,
       ClientGetsRequest, ClientGetsAnswer, FromServer, ClientCapabilities, ClientFormatList,
       ClientFormatDataFails, ClientFormatDataRequest, FromClient, vars, macVars, peerVars
  <2>2. QED
    BY <1>2, <2>1, EchoParts DEF ReceiptMet, BoardIsOurs, BoardIsNoted, PollMet, NoBounce
<1>15. QED
  BY <1>3, <1>4, <1>5, <1>6, <1>7, <1>8, <1>9, <1>10, <1>11, <1>12, <1>13, <1>14
     DEF Next, MacStep, LoopStep, PollStep

-----------------------------------------------------------------------------
LEMMA InvParts ==
  /\ OfferInv <=> Types /\ Offer /\ Echo
  /\ OfferInv' <=> Types' /\ Offer' /\ Echo'
<1>1. ClipTypeOK <=> Types
  BY TypeParts DEF Types
<1>2. ClipTypeOK' <=> Types'
  BY DEF ClipTypeOK, Types, BoardType, CopiesType, ClientType, PollType, LoopType, PeerType, WireType
<1>3. OfferInv <=> ClipTypeOK /\ Offer /\ Echo
  BY DEF OfferInv, Offer, Echo
<1>4. OfferInv' <=> ClipTypeOK' /\ Offer' /\ Echo'
  BY DEF OfferInv, Offer, Echo
<1>5. QED
  BY <1>1, <1>2, <1>3, <1>4

LEMMA InitOffer == Init => OfferInv
<1> SUFFICES ASSUME Init PROVE OfferInv
  OBVIOUS
<1>1. /\ board.item.by = "nobody" /\ held.by = "nobody" /\ poll.at = "off" /\ loop.at = "idle"
      /\ clientBoard.whose = "own" /\ toClient = <<>>
  BY NothingIsItem DEF Init, IdlePoll, IdleLoop
<1>2. BoardType /\ CopiesType /\ ClientType /\ LoopType /\ PeerType /\ raced \in SUBSET Item
  BY NothingIsItem DEF Init, BoardType, CopiesType, ClientType, LoopType, IdleLoop, PeerType
<1>3. PollType
  BY NothingIsItem DEF Init, IdlePoll, PollType
<1>4. WireType
  BY DEF Init, WireType, Message
<1>5. Lists(toClient) = {}
  BY <1>1 DEF Lists
<1>6. Offer
  BY <1>1, <1>5, OfferParts DEF Offer, NoListBeforeReady, ClientOwns, Settled, LastIs
<1>7. Echo
  BY <1>1 DEF Echo, EchoInv, NoBounce, PollAtIt
<1>8. QED
  BY <1>2, <1>3, <1>4, <1>6, <1>7, InvParts DEF Types

(* What the client is offered is what the peer holds, no format list goes  *)
(* out before the client has engaged the channel, and what the client      *)
(* copied comes back only if a poll met its receipt: however many copies   *)
(* are made, and however the threads interleave.                           *)
THEOREM OfferHolds == Spec => []OfferInv
<1>1. OfferInv /\ [Next]_vars => OfferInv'
  BY InvParts, TypeStep, OfferStep, EchoStep
<1>2. QED
  BY InitOffer, <1>1, PTL DEF Spec

=============================================================================
