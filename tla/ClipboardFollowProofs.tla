------------------------ MODULE ClipboardFollowProofs ------------------------
(***************************************************************************)
(* FollowInv is an inductive invariant of Clipboard, for any number of     *)
(* copies, and with it two things the users on both sides rely on: no      *)
(* paste is refused for a copy that the Mac still holds for the client     *)
(* (RefusedForNewer), and text that was decoded in the wrong format is     *)
(* about to be replaced (GarbledIsReplaced).                               *)
(***************************************************************************)
EXTENDS ClipboardProofs, WellFoundedInduction

-----------------------------------------------------------------------------
(* Who changes what.                                                       *)
PeerReads == \/ ClientCapabilities \/ ClientFormatList \/ ClientFormatData
             \/ ClientFormatDataFails \/ ClientFormatDataRequest

Frame ==
  /\ board' = board \/ AppClears \/ AppWrites \/ ClientFormatData \/ SetString
  /\ macCopies' = macCopies \/ AppClears
  /\ clientBoard' = clientBoard \/ ClientCopies \/ ClientGetsList
  /\ pasted' = pasted \/ ClientCopies \/ ClientPastes \/ ClientGetsList \/ ClientGetsAnswer
  /\ lastChangeCount' = lastChangeCount \/ NoteCount \/ StartSync \/ PollCompares
  /\ poll' = poll \/ StartSync \/ PollStep
  /\ loop' = loop \/ ClientFormatData \/ SetString \/ NoteCount
  /\ clipReqFormat' = clipReqFormat \/ ClientFormatList
  /\ held' = held \/ PollSwaps
  /\ toServer' = toServer \/ ClientCopies \/ ClientPastes \/ ClientGetsRequest \/ PeerReads
  /\ toClient' = toClient \/ ClientReads \/ ClientFormatList \/ ClientFormatDataRequest
                          \/ PollAdvertises

LEMMA FrameHolds == [Next]_vars => Frame
<1> SUFFICES ASSUME [Next]_vars PROVE Frame
  OBVIOUS
<1> USE DEF Frame, macVars, clientVars, peerVars
<1>1. CASE MacStep
  BY <1>1 DEF MacStep, AppClears, AppWrites
<1>2. CASE ClientStep
  BY <1>2 DEF ClientStep, ClientCopies, ClientPastes
<1>3. CASE ClientReads
  BY <1>3 DEF ClientReads, ClientGetsList, ClientGetsRequest, ClientGetsAnswer, FromServer
<1>4. CASE PeerReads
  BY <1>4 DEF PeerReads, ClientCapabilities, ClientFormatList, ClientFormatData,
              ClientFormatDataFails, ClientFormatDataRequest, FromClient
<1>5. CASE SetString \/ NoteCount \/ StartSync
  BY <1>5 DEF SetString, NoteCount, StartSync
<1>6. CASE PollStep
  BY <1>6 DEF PollStep, PollReadsCount, PollCompares, PollReadsItem, PollSwaps, PollDefers,
              PollAdvertises, Polling
<1>7. CASE UNCHANGED vars
  BY <1>7 DEF vars
<1>8. QED
  BY <1>1, <1>2, <1>3, <1>4, <1>5, <1>6, <1>7 DEF Next, LoopStep, PeerReads

-----------------------------------------------------------------------------
(* Messages of some types in a queue.                                      *)
LEMMA MessageTypes ==
  /\ \A item : List(item).type = "list" /\ List(item).item = item
  /\ \A f : Request(f).type = "request" /\ Request(f).format = f
  /\ \A item, f : /\ Data(item, f).type = "data" /\ Data(item, f).item = item
                  /\ Data(item, f).format = f
  /\ Fail.type = "fail"
BY DEF List, Request, Data, Fail

LEMMA ListsAreOf == \A queue : Lists(queue) = Of(queue, {"list"})
BY DEF Lists, Of

LEMMA OfIsNat ==
  ASSUME NEW queue \in Seq(Message), NEW types
  PROVE  /\ \A i \in Of(queue, types) : i \in Nat /\ i >= 1 /\ i <= Len(queue)
         /\ \A i \in Of(queue, types) : queue[i] \in Message /\ queue[i].type \in types
BY DEF Of

LEMMA AppendAt ==
  ASSUME NEW queue \in Seq(Message), NEW msg \in Message, NEW types
  PROVE  /\ \A i \in Of(queue, types) : Append(queue, msg)[i] = queue[i]
         /\ Append(queue, msg)[Len(queue) + 1] = msg
BY DEF Of

LEMMA OfAppend ==
  ASSUME NEW queue \in Seq(Message), NEW msg \in Message, NEW types
  PROVE  /\ Of(Append(queue, msg), types) =
              IF msg.type \in types THEN Of(queue, types) \cup {Len(queue) + 1}
                                    ELSE Of(queue, types)
         /\ Len(queue) + 1 \notin Of(queue, types)
BY DEF Of

LEMMA OfTail ==
  ASSUME NEW queue \in Seq(Message), queue # <<>>, NEW types
  PROVE  /\ \A i \in Of(Tail(queue), types) :
              i \in Nat /\ i >= 1 /\ i + 1 \in Of(queue, types) /\ Tail(queue)[i] = queue[i + 1]
         /\ \A i \in Of(queue, types) :
              i # 1 => i - 1 \in Of(Tail(queue), types) /\ Tail(queue)[i - 1] = queue[i]
         /\ 1 \in Of(queue, types) <=> Head(queue).type \in types
         /\ Head(queue) = queue[1]
BY DEF Of

(* A message of another type comes or goes: nothing changes.               *)
LEMMA LatestAppendOther ==
  ASSUME NEW queue \in Seq(Message), NEW msg \in Message, NEW types, msg.type \notin types,
         NEW m
  PROVE  LatestIs(Append(queue, msg), types, m) <=> LatestIs(queue, types, m)
<1>1. Of(Append(queue, msg), types) = Of(queue, types)
  BY OfAppend
<1>2. \A i \in Of(queue, types) : Append(queue, msg)[i] = queue[i]
  BY AppendAt
<1>3. QED
  BY <1>1, <1>2 DEF LatestIs

(* The one that comes is the latest.                                       *)
LEMMA LatestAppend ==
  ASSUME NEW queue \in Seq(Message), NEW msg \in Message, NEW types, msg.type \in types
  PROVE  LatestIs(Append(queue, msg), types, msg) /\ Of(Append(queue, msg), types) # {}
<1>1. /\ Of(Append(queue, msg), types) = Of(queue, types) \cup {Len(queue) + 1}
      /\ Append(queue, msg)[Len(queue) + 1] = msg
  BY OfAppend, AppendAt
<1>2. Len(queue) \in Nat /\ \A i \in Of(queue, types) : i \in Nat /\ i <= Len(queue)
  BY OfIsNat
<1>3. ASSUME NEW i \in Of(queue, types) PROVE ~(Len(queue) + 1 <= i)
  BY <1>2, <1>3
<1>4. QED
  BY <1>1, <1>3 DEF LatestIs

(* Reading the first leaves the latest the latest; the last one read was   *)
(* the latest.                                                             *)
LEMMA LatestTail ==
  ASSUME NEW queue \in Seq(Message), queue # <<>>, NEW types, NEW msg,
         LatestIs(queue, types, msg)
  PROVE  /\ LatestIs(Tail(queue), types, msg)
         /\ Of(queue, types) # {} /\ Of(Tail(queue), types) = {} => Head(queue) = msg
<1>1. LatestIs(Tail(queue), types, msg)
  <2> SUFFICES ASSUME NEW i \in Of(Tail(queue), types),
                      \A j \in Of(Tail(queue), types) : j <= i
               PROVE  Tail(queue)[i] = msg
    BY DEF LatestIs
  <2>1. i \in Nat /\ i >= 1 /\ i + 1 \in Of(queue, types) /\ Tail(queue)[i] = queue[i + 1]
    BY OfTail
  <2>2. ASSUME NEW j \in Of(queue, types) PROVE j <= i + 1
    <3>1. CASE j = 1
      BY <2>1, <3>1
    <3>2. CASE j # 1
      <4>1. j \in Nat /\ j - 1 \in Of(Tail(queue), types)
        BY <3>2, OfTail, OfIsNat
      <4>2. j - 1 <= i
        BY <4>1
      <4>3. QED
        BY <2>1, <4>1, <4>2
    <3>3. QED
      BY <3>1, <3>2
  <2>3. queue[i + 1] = msg
    BY <2>1, <2>2 DEF LatestIs
  <2>4. QED
    BY <2>1, <2>3
<1>2. ASSUME Of(queue, types) # {}, Of(Tail(queue), types) = {} PROVE Head(queue) = msg
  <2>1. \A i \in Of(queue, types) : i = 1
    BY <1>2, OfTail
  <2>2. 1 \in Of(queue, types) /\ \A j \in Of(queue, types) : j <= 1
    BY <1>2, <2>1
  <2>3. queue[1] = msg
    BY <2>2 DEF LatestIs
  <2>4. QED
    BY <2>3, OfTail
<1>3. QED
  BY <1>1, <1>2

-----------------------------------------------------------------------------
(* What the steps do to the queues.                                        *)
LEMMA ToServerAfter ==
  ASSUME Types
  PROVE  /\ ClientCopies =>
              \E item \in Item : /\ item.by = "client"
                                 /\ clientBoard' = [item |-> item, whose |-> "own"]
                                 /\ toServer' = Append(toServer, List(item))
         /\ ClientPastes =>
              toServer' = Append(toServer, Request(Format(clientBoard.item)))
         /\ ClientGetsRequest =>
              \/ toServer' = Append(toServer, Fail)
              \/ /\ toServer' = Append(toServer, Data(clientBoard.item, Head(toClient).format))
                 /\ ClientOwns /\ CanGive(clientBoard.item, Head(toClient).format)
                 /\ clientBoard.item \in Item
                 /\ Head(toClient).format \in {"unicode", "ansi", "png"}
         /\ ClientGetsRequest /\ ClientOwns /\ CanGive(clientBoard.item, Head(toClient).format)
              => toServer' = Append(toServer, Data(clientBoard.item, Head(toClient).format))
         /\ PeerReads => toServer # <<>> /\ toServer' = Tail(toServer)
<1>1. /\ clientCopies \in Nat /\ clientBoard.item \in Item
      /\ toServer \in Seq(Message) /\ toClient \in Seq(Message)
  BY DEF Types, CopiesType, ClientType, WireType
<1>2. ASSUME ClientCopies
      PROVE  \E item \in Item : /\ item.by = "client"
                                /\ clientBoard' = [item |-> item, whose |-> "own"]
                                /\ toServer' = Append(toServer, List(item))
  <2> DEFINE Copy(kind) == [by |-> "client", n |-> clientCopies + 1, kind |-> kind]
  <2>1. \E kind \in {"text", "ansi", "other"} :
          /\ clientBoard' = [item |-> Copy(kind), whose |-> "own"]
          /\ toServer' = Append(toServer, List(Copy(kind)))
    BY <1>2 DEF ClientCopies
  <2>2. \A kind \in {"text", "ansi", "other"} : Copy(kind) \in Item /\ Copy(kind).by = "client"
    BY <1>1 DEF Item
  <2>3. QED
    <3> HIDE DEF Copy
    <3>1. QED
      BY <2>1, <2>2
<1>3. ASSUME ClientGetsRequest
      PROVE  Head(toClient).format \in {"unicode", "ansi", "png"}
  BY <1>1, <1>3, HeadIsMessage, MessageFields DEF ClientGetsRequest, FromServer
<1>4. ClientPastes => toServer' = Append(toServer, Request(Format(clientBoard.item)))
  BY DEF ClientPastes
<1>5. ASSUME ClientGetsRequest
      PROVE  toServer' = Append(toServer,
               IF ClientOwns /\ CanGive(clientBoard.item, Head(toClient).format)
               THEN Data(clientBoard.item, Head(toClient).format) ELSE Fail)
  BY <1>5 DEF ClientGetsRequest
<1>6. PeerReads => toServer # <<>> /\ toServer' = Tail(toServer)
  BY DEF PeerReads, ClientCapabilities, ClientFormatList, ClientFormatData,
         ClientFormatDataFails, ClientFormatDataRequest, FromClient
<1>7. QED
  BY <1>1, <1>2, <1>3, <1>4, <1>5, <1>6

LEMMA ToClientAfter ==
  ASSUME Types
  PROVE  /\ ClientReads => toClient # <<>> /\ toClient' = Tail(toClient)
         /\ ClientFormatList =>
              LET want == Wanted(Head(toServer).item)
              IN  IF want = "no text" THEN UNCHANGED <<toClient, clipReqFormat>>
                  ELSE /\ want \in {"unicode", "ansi"} /\ clipReqFormat' = want
                       /\ toClient' = Append(toClient, Request(want))
         /\ ClientFormatDataRequest =>
              IF held # Nothing /\ Format(held) = Head(toServer).format
              THEN \E msg \in Message : msg.type = "data" /\ toClient' = Append(toClient, msg)
              ELSE toClient' = Append(toClient, Fail)
         /\ PollAdvertises => toClient' = Append(toClient, List(poll.item))
<1>1. held \in Item /\ toServer \in Seq(Message) /\ toClient \in Seq(Message)
  BY DEF Types, PeerType, WireType
<1>2. ClientReads => toClient # <<>> /\ toClient' = Tail(toClient)
  BY DEF ClientReads, ClientGetsList, ClientGetsRequest, ClientGetsAnswer, FromServer
<1>3. ASSUME ClientFormatList
      PROVE  Wanted(Head(toServer).item) \in {"unicode", "ansi", "no text"}
  BY <1>1, <1>3, HeadIsMessage, MessageFields, WantedValues DEF ClientFormatList, FromClient
<1>4. ASSUME ClientFormatDataRequest
      PROVE  /\ Data(held, Head(toServer).format) \in Message
             /\ Data(held, Head(toServer).format).type = "data"
  BY <1>1, <1>4, HeadIsMessage, MessageFields, DataIsMessage, MessageTypes
     DEF ClientFormatDataRequest, FromClient
<1>5. ASSUME ClientFormatDataRequest
      PROVE  toClient' = Append(toClient,
               IF held # Nothing /\ Format(held) = Head(toServer).format
               THEN Data(held, Head(toServer).format) ELSE Fail)
  BY <1>5 DEF ClientFormatDataRequest
<1>6. ASSUME ClientFormatList
      PROVE  LET want == Wanted(Head(toServer).item)
             IN  IF want = "no text" THEN UNCHANGED <<toClient, clipReqFormat>>
                 ELSE /\ want \in {"unicode", "ansi"} /\ clipReqFormat' = want
                      /\ toClient' = Append(toClient, Request(want))
  BY <1>3, <1>6 DEF ClientFormatList
<1>7. PollAdvertises => toClient' = Append(toClient, List(poll.item))
  BY DEF PollAdvertises
<1>8. QED
  BY <1>2, <1>4, <1>5, <1>6, <1>7

-----------------------------------------------------------------------------
(* TextInv, part by part.                                                  *)
RequestIsLatest == LatestIs(toClient, {"request"}, Request(clipReqFormat))

ListIsLatest == ClientOwns => LatestIs(toServer, {"list"}, List(clientBoard.item))

OffIsClean == poll.at = "off" => board.item.kind # "garbled" /\ loop = IdleLoop

OwnText == ClientOwns /\ Wanted(clientBoard.item) # "no text"

LEMMA TextParts ==
  /\ TextInv <=> RequestIsLatest /\ ListIsLatest /\ OffIsClean /\ (OwnText => TextIsComing)
  /\ TextInv' <=> /\ RequestIsLatest' /\ ListIsLatest' /\ OffIsClean'
                  /\ OwnText' => TextIsComing'
BY DEF TextInv, RequestIsLatest, ListIsLatest, OffIsClean, OwnText

LEMMA RequestIsLatestStep == Types /\ RequestIsLatest /\ [Next]_vars => RequestIsLatest'
<1> SUFFICES ASSUME Types, RequestIsLatest, [Next]_vars PROVE RequestIsLatest'
  OBVIOUS
<1>1. toClient \in Seq(Message) /\ Frame
  BY FrameHolds DEF Types, WireType
<1>2. CASE ClientFormatList
  <2>1. CASE Wanted(Head(toServer).item) = "no text"
    BY <1>2, <2>1, ToClientAfter DEF RequestIsLatest
  <2>2. CASE Wanted(Head(toServer).item) # "no text"
    <3> DEFINE want == Wanted(Head(toServer).item)
    <3>1. /\ want \in {"unicode", "ansi"} /\ clipReqFormat' = want
          /\ toClient' = Append(toClient, Request(want))
      BY <1>2, <2>2, ToClientAfter
    <3>2. Request(want) \in Message /\ Request(want).type \in {"request"}
      BY <3>1, RequestIsMessage, MessageTypes
    <3>3. QED
      BY <1>1, <3>1, <3>2, LatestAppend DEF RequestIsLatest
  <2>3. QED
    BY <2>1, <2>2
<1>3. CASE ClientReads
  <2>1. UNCHANGED clipReqFormat
    BY <1>3 DEF ClientReads, ClientGetsList, ClientGetsRequest, ClientGetsAnswer, FromServer,
                peerVars
  <2>2. toClient # <<>> /\ toClient' = Tail(toClient)
    BY <1>3, ToClientAfter
  <2>3. LatestIs(Tail(toClient), {"request"}, Request(clipReqFormat))
    BY <1>1, <2>2, LatestTail DEF RequestIsLatest
  <2>4. QED
    BY <2>1, <2>2, <2>3 DEF RequestIsLatest
<1>4. CASE ClientFormatDataRequest \/ PollAdvertises
  <2>1. UNCHANGED clipReqFormat
    BY <1>4 DEF ClientFormatDataRequest, PollAdvertises, Polling, peerVars
  <2>2. \E msg \in Message : msg.type \notin {"request"} /\ toClient' = Append(toClient, msg)
    <3>1. poll.item \in Item
      BY DEF Types, PollType
    <3>2. List(poll.item) \in Message /\ Fail \in Message
      BY <3>1, ListIsMessage, FailIsMessage
    <3>3. QED
      BY <1>4, <3>2, ToClientAfter, MessageTypes
  <2>3. PICK msg \in Message : msg.type \notin {"request"} /\ toClient' = Append(toClient, msg)
    BY <2>2
  <2>4. LatestIs(Append(toClient, msg), {"request"}, Request(clipReqFormat))
    BY <1>1, <2>3, LatestAppendOther DEF RequestIsLatest
  <2>5. QED
    BY <2>1, <2>3, <2>4 DEF RequestIsLatest
<1>5. CASE UNCHANGED <<toClient, clipReqFormat>>
  BY <1>5 DEF RequestIsLatest, LatestIs
<1>6. QED
  BY <1>1, <1>2, <1>3, <1>4, <1>5 DEF Frame

LEMMA ListIsLatestStep == Types /\ ListIsLatest /\ [Next]_vars => ListIsLatest'
<1> SUFFICES ASSUME Types, ListIsLatest, [Next]_vars PROVE ListIsLatest'
  OBVIOUS
<1>1. /\ toServer \in Seq(Message) /\ clientBoard.item \in Item /\ Frame
  BY FrameHolds DEF Types, WireType, ClientType
<1>2. CASE ClientCopies
  <2>1. PICK item \in Item : /\ clientBoard' = [item |-> item, whose |-> "own"]
                             /\ toServer' = Append(toServer, List(item))
    BY <1>2, ToServerAfter
  <2>2. List(item) \in Message /\ List(item).type \in {"list"}
    BY ListIsMessage, MessageTypes
  <2>3. QED
    BY <1>1, <2>1, <2>2, LatestAppend DEF ListIsLatest
<1>3. CASE ClientGetsList
  BY <1>3 DEF ClientGetsList, ListIsLatest, ClientOwns
<1>4. CASE ClientPastes \/ ClientGetsRequest
  <2>1. UNCHANGED clientBoard
    BY <1>4 DEF ClientPastes, ClientGetsRequest
  <2>2. \E msg \in Message : msg.type \notin {"list"} /\ toServer' = Append(toServer, msg)
    BY <1>1, <1>4, ToServerAfter, FormatValues, RequestIsMessage, DataIsMessage, FailIsMessage,
       MessageTypes
  <2>3. PICK msg \in Message : msg.type \notin {"list"} /\ toServer' = Append(toServer, msg)
    BY <2>2
  <2>4. ClientOwns => LatestIs(Append(toServer, msg), {"list"}, List(clientBoard.item))
    BY <1>1, <2>3, LatestAppendOther DEF ListIsLatest
  <2>5. QED
    BY <2>1, <2>3, <2>4 DEF ListIsLatest, ClientOwns
<1>5. CASE PeerReads
  <2>1. UNCHANGED clientBoard
    BY <1>5 DEF PeerReads, ClientCapabilities, ClientFormatList, ClientFormatData,
                ClientFormatDataFails, ClientFormatDataRequest, FromClient, clientVars
  <2>2. toServer # <<>> /\ toServer' = Tail(toServer)
    BY <1>5, ToServerAfter
  <2>3. ClientOwns => LatestIs(Tail(toServer), {"list"}, List(clientBoard.item))
    BY <1>1, <2>2, LatestTail DEF ListIsLatest
  <2>4. QED
    BY <2>1, <2>2, <2>3 DEF ListIsLatest, ClientOwns
<1>6. CASE UNCHANGED <<toServer, clientBoard>>
  BY <1>6 DEF ListIsLatest, LatestIs, ClientOwns
<1>7. QED
  BY <1>1, <1>2, <1>3, <1>4, <1>5, <1>6 DEF Frame

(* Nothing is received before the sync has started.                        *)
LEMMA OffIsCleanStep == Types /\ OffIsClean /\ [Next]_vars => OffIsClean'
<1> SUFFICES ASSUME Types, OffIsClean, [Next]_vars, poll'.at = "off"
             PROVE  board'.item.kind # "garbled" /\ loop' = IdleLoop
  BY DEF OffIsClean
<1>1. /\ PollType /\ board \in [owner : {"app", "us"}, count : Nat, item : Item]
      /\ Frame
  BY FrameHolds DEF Types, BoardType
<1>2. poll' = poll
  <2>1. ~StartSync
    BY <1>1, PollAfter
  <2>2. ~PollStep
    BY <1>1, PollAfter DEF PollStep
  <2>3. QED
    BY <1>1, <2>1, <2>2 DEF Frame
<1>3. board.item.kind # "garbled" /\ loop = IdleLoop /\ loop.at = "idle"
  BY <1>2 DEF OffIsClean, IdleLoop
<1>4. ~SetString /\ ~NoteCount
  BY <1>3 DEF SetString, NoteCount
<1>5. CASE ClientFormatData
  BY <1>2, <1>3, <1>5 DEF ClientFormatData
<1>6. CASE AppClears
  BY <1>3, <1>6 DEF AppClears, Cleared, Nothing
<1>7. CASE AppWrites
  BY <1>1, <1>3, <1>7 DEF AppWrites
<1>8. CASE UNCHANGED <<board, loop>>
  BY <1>3, <1>8
<1>9. QED
  BY <1>1, <1>3, <1>4, <1>5, <1>6, <1>7, <1>8 DEF Frame, AppClears, AppWrites

(* A message of another type is read: the others are still there.          *)
LEMMA OfTailOther ==
  ASSUME NEW queue \in Seq(Message), queue # <<>>, NEW types, Head(queue).type \notin types
  PROVE  Of(Tail(queue), types) = {} <=> Of(queue, types) = {}
<1>1. 1 \notin Of(queue, types)
  BY OfTail
<1>2. ASSUME NEW i \in Of(queue, types) PROVE Of(Tail(queue), types) # {}
  BY <1>1, OfTail
<1>3. ASSUME NEW i \in Of(Tail(queue), types) PROVE Of(queue, types) # {}
  BY OfTail
<1>4. QED
  BY <1>2, <1>3

(* The four ways the client's text can be coming.                          *)
Listed == Of(toServer, {"list"}) # {}

Requested == Of(toClient, {"request"}) # {}

Sent == /\ Of(toServer, Answer) # {}
        /\ LatestIs(toServer, Answer, Data(clientBoard.item, clipReqFormat))

Clean == board.item.kind # "garbled" /\ loop.item.kind # "garbled"

Arrived == Of(toServer, Answer) = {} /\ Clean

InFormat == clipReqFormat = Wanted(clientBoard.item)

LEMMA ComingParts ==
  /\ TextIsComing <=> Listed \/ (InFormat /\ (Requested \/ Sent \/ Arrived))
  /\ TextIsComing' <=> Listed' \/ (InFormat' /\ (Requested' \/ Sent' \/ Arrived'))
BY DEF TextIsComing, Listed, Requested, Sent, Arrived, Clean, InFormat

(* A step of the pasteboard alone garbles nothing.                         *)
LEMMA CleanStep ==
  ASSUME Types, AppClears \/ AppWrites \/ SetString \/ NoteCount, Clean
  PROVE  Clean'
<1>1. board \in [owner : {"app", "us"}, count : Nat, item : Item] /\ LoopType
  BY DEF Types, BoardType
<1>2. CASE AppClears
  BY <1>2 DEF AppClears, Cleared, Nothing, Clean
<1>3. CASE AppWrites
  <2>1. board'.item.kind \in {"text", "png", "other"} /\ loop' = loop
    BY <1>1, <1>3 DEF AppWrites
  <2>2. QED
    BY <2>1 DEF Clean
<1>4. CASE SetString
  <2>1. loop'.item = loop.item /\ board'.item \in {board.item, loop.item}
    BY <1>1, <1>4 DEF SetString, LoopType
  <2>2. QED
    BY <2>1 DEF Clean
<1>5. CASE NoteCount
  BY <1>5 DEF NoteCount, IdleLoop, Nothing, macVars, Clean
<1>6. QED
  BY <1>2, <1>3, <1>4, <1>5

(* Reading a list that is the last: it is the client's present one.        *)
LEMMA ComingAfterList ==
  ASSUME Types, ListIsLatest, OwnText, TextIsComing, ClientFormatList
  PROVE  TextIsComing'
<1>1. toServer \in Seq(Message) /\ toClient \in Seq(Message) /\ clientBoard.item \in Item
  BY DEF Types, WireType, ClientType
<1>2. /\ toServer # <<>> /\ toServer' = Tail(toServer) /\ Head(toServer).type = "list"
      /\ clientBoard' = clientBoard
  BY DEF ClientFormatList, FromClient, clientVars
<1>3. CASE Of(Tail(toServer), {"list"}) # {}
  BY <1>2, <1>3, ComingParts DEF Listed
<1>4. CASE Of(Tail(toServer), {"list"}) = {}
  <2>1. Of(toServer, {"list"}) # {}
    BY <1>1, <1>2, OfTail
  <2>2. Head(toServer) = List(clientBoard.item)
    BY <1>1, <1>2, <1>4, <2>1, LatestTail DEF ListIsLatest, OwnText
  <2>3. Wanted(Head(toServer).item) = Wanted(clientBoard.item)
    BY <2>2, MessageTypes
  <2>4. /\ clipReqFormat' = Wanted(clientBoard.item)
        /\ Wanted(clientBoard.item) \in {"unicode", "ansi"}
        /\ toClient' = Append(toClient, Request(Wanted(clientBoard.item)))
    BY <2>3, ToClientAfter DEF OwnText
  <2>5. Of(toClient', {"request"}) # {}
    <3> DEFINE msg == Request(Wanted(clientBoard.item))
    <3>1. msg \in Message /\ msg.type \in {"request"}
      BY <2>4, RequestIsMessage, MessageTypes
    <3>2. toClient' = Append(toClient, msg)
      BY <2>4
    <3> HIDE DEF msg
    <3>3. QED
      BY <1>1, <3>1, <3>2, LatestAppend
  <2>6. QED
    BY <1>2, <2>4, <2>5, ComingParts DEF Requested, InFormat
<1>5. QED
  BY <1>3, <1>4

(* The last request is answered with the text, in the format asked for.    *)
LEMMA ComingAfterRequest ==
  ASSUME Types, RequestIsLatest, OwnText, TextIsComing, ClientGetsRequest
  PROVE  TextIsComing'
<1>1. toServer \in Seq(Message) /\ toClient \in Seq(Message) /\ clientBoard.item \in Item
  BY DEF Types, WireType, ClientType
<1>2. /\ toClient # <<>> /\ toClient' = Tail(toClient) /\ Head(toClient).type = "request"
      /\ UNCHANGED <<clientBoard, clipReqFormat>>
  BY DEF ClientGetsRequest, FromServer, peerVars
<1>3. \E msg \in Message : toServer' = Append(toServer, msg)
  BY ToServerAfter, DataIsMessage, FailIsMessage
<1>4. CASE Listed
  <2>1. Of(toServer', {"list"}) # {}
    BY <1>1, <1>3, <1>4, OfAppend DEF Listed
  <2>2. QED
    BY <2>1, ComingParts DEF Listed
<1>5. CASE ~Listed /\ Of(Tail(toClient), {"request"}) # {}
  BY <1>2, <1>5, ComingParts DEF Requested, InFormat
<1>6. CASE ~Listed /\ Of(Tail(toClient), {"request"}) = {}
  <2>1. clipReqFormat = Wanted(clientBoard.item)
    BY <1>6, ComingParts DEF InFormat
  <2>2. Of(toClient, {"request"}) # {}
    BY <1>1, <1>2, OfTail
  <2>3. Head(toClient) = Request(clipReqFormat)
    BY <1>1, <1>2, <1>6, <2>2, LatestTail DEF RequestIsLatest
  <2>4. Head(toClient).format = clipReqFormat
    BY <2>3, MessageTypes
  <2>5. ClientOwns /\ CanGive(clientBoard.item, Head(toClient).format)
    BY <2>1, <2>4 DEF OwnText, CanGive
  <2>6. Head(toClient).format \in {"unicode", "ansi", "png"}
    BY <1>1, <1>2, HeadIsMessage, MessageFields
  <2>7. toServer' = Append(toServer, Data(clientBoard.item, clipReqFormat))
    BY <2>4, <2>5, ToServerAfter
  <2>8. /\ Data(clientBoard.item, clipReqFormat) \in Message
        /\ Data(clientBoard.item, clipReqFormat).type \in Answer
    BY <1>1, <2>4, <2>6, DataIsMessage, MessageTypes DEF Answer
  <2>9. /\ Of(toServer', Answer) # {}
        /\ LatestIs(toServer', Answer, Data(clientBoard.item, clipReqFormat))
    BY <1>1, <2>7, <2>8, LatestAppend
  <2>10. QED
    BY <1>2, <2>1, <2>9, ComingParts DEF Sent, InFormat
<1>7. QED
  BY <1>4, <1>5, <1>6

(* Reading the client's answers: the last one holds its present text, in   *)
(* the format it is decoded in.                                            *)
LEMMA ComingAfterAnswer ==
  ASSUME Types, OffIsClean, OwnText, TextIsComing, ClientFormatData \/ ClientFormatDataFails
  PROVE  TextIsComing'
<1>1. toServer \in Seq(Message) /\ clientBoard.item \in Item
  BY DEF Types, WireType, ClientType
<1>2. /\ toServer # <<>> /\ toServer' = Tail(toServer)
      /\ Head(toServer).type \in Answer /\ Head(toServer).type \notin {"list"}
      /\ UNCHANGED <<clientBoard, clipReqFormat, toClient>>
  BY DEF ClientFormatData, ClientFormatDataFails, FromClient, peerVars, clientVars, Answer
<1>3. CASE Listed
  BY <1>1, <1>2, <1>3, OfTailOther, ComingParts DEF Listed
<1>4. CASE ~Listed /\ Requested
  BY <1>2, <1>4, ComingParts DEF Requested, InFormat
<1>5. CASE ~Listed /\ ~Requested
  <2>1. InFormat /\ InFormat' /\ Of(toServer, Answer) # {}
    BY <1>1, <1>2, <1>5, OfTail, ComingParts DEF InFormat
  <2>2. LatestIs(toServer, Answer, Data(clientBoard.item, clipReqFormat))
    BY <1>5, <2>1, ComingParts DEF Sent, Arrived
  <2>3. CASE Of(Tail(toServer), Answer) # {}
    <3>1. LatestIs(Tail(toServer), Answer, Data(clientBoard.item, clipReqFormat))
      BY <1>1, <1>2, <2>2, LatestTail
    <3>2. QED
      BY <1>2, <2>1, <2>3, <3>1, ComingParts DEF Sent
  <2>4. CASE Of(Tail(toServer), Answer) = {}
    <3>1. Head(toServer) = Data(clientBoard.item, clipReqFormat)
      BY <1>1, <1>2, <2>1, <2>2, <2>4, LatestTail
    <3>2. /\ Head(toServer).type = "data" /\ Head(toServer).item = clientBoard.item
          /\ Head(toServer).format = clipReqFormat
      BY <3>1, MessageTypes
    <3>3. ClientFormatData /\ Decoded(Head(toServer)) = {clientBoard.item}
      BY <3>2 DEF ClientFormatDataFails, FromClient, Decoded
    <3>4. clientBoard.item.kind # "garbled"
      BY DEF OwnText, Wanted
    <3>5. Clean'
      <4>1. CASE poll.at = "off"
        BY <3>3, <4>1 DEF ClientFormatData, OffIsClean, Clean, IdleLoop, Nothing
      <4>2. CASE poll.at # "off"
        <5>1. /\ board' = Cleared("us")
              /\ loop' = IF clientBoard.item = Nothing THEN IdleLoop
                         ELSE [at |-> "set", item |-> clientBoard.item]
          BY <3>3, <4>2 DEF ClientFormatData
        <5>2. QED
          BY <3>4, <5>1 DEF Clean, Cleared, IdleLoop, Nothing
      <4>3. QED
        BY <4>1, <4>2
    <3>6. QED
      BY <1>2, <2>1, <2>4, <3>5, ComingParts DEF Arrived
  <2>5. QED
    BY <2>3, <2>4
<1>6. QED
  BY <1>3, <1>4, <1>5

(* The other steps touch none of it.                                       *)
LEMMA ComingKept ==
  ASSUME Types, OwnText, TextIsComing,
         UNCHANGED <<clientBoard, clipReqFormat>>,
         Of(toServer', {"list"}) = {} <=> Of(toServer, {"list"}) = {},
         Of(toClient', {"request"}) = {} <=> Of(toClient, {"request"}) = {},
         Of(toServer', Answer) = {} <=> Of(toServer, Answer) = {},
         Sent => Sent',
         Clean => Clean'
  PROVE  TextIsComing'
BY ComingParts DEF Listed, Requested, Arrived, InFormat

LEMMA TextComesStep ==
  ASSUME Types, RequestIsLatest, ListIsLatest, OffIsClean, OwnText => TextIsComing,
         [Next]_vars, OwnText'
  PROVE  TextIsComing'
<1>1. /\ toServer \in Seq(Message) /\ toClient \in Seq(Message) /\ clientBoard.item \in Item
      /\ Frame
  BY FrameHolds DEF Types, WireType, ClientType
<1>2. CASE ClientCopies
  <2>1. PICK item \in Item : toServer' = Append(toServer, List(item))
    BY <1>2, ToServerAfter
  <2>2. List(item) \in Message /\ List(item).type \in {"list"}
    BY ListIsMessage, MessageTypes
  <2>3. Of(toServer', {"list"}) # {}
    BY <1>1, <2>1, <2>2, LatestAppend
  <2>4. QED
    BY <2>3, ComingParts DEF Listed
<1>3. CASE ClientGetsList
  BY <1>3 DEF ClientGetsList, OwnText, ClientOwns
<1>4. ASSUME clientBoard' = clientBoard PROVE OwnText /\ TextIsComing
  BY <1>4 DEF OwnText, ClientOwns
<1>5. CASE ClientFormatList
  <2>1. clientBoard' = clientBoard
    BY <1>5 DEF ClientFormatList, FromClient, clientVars
  <2>2. QED
    BY <1>4, <1>5, <2>1, ComingAfterList
<1>6. CASE ClientGetsRequest
  <2>1. clientBoard' = clientBoard
    BY <1>6 DEF ClientGetsRequest
  <2>2. QED
    BY <1>4, <1>6, <2>1, ComingAfterRequest
<1>7. CASE ClientFormatData \/ ClientFormatDataFails
  <2>1. clientBoard' = clientBoard
    BY <1>7 DEF ClientFormatData, ClientFormatDataFails, FromClient, clientVars
  <2>2. QED
    BY <1>4, <1>7, <2>1, ComingAfterAnswer
<1>8. CASE ClientPastes
  BY <1>8 DEF ClientPastes, OwnText, ClientOwns
<1>9. CASE ClientGetsAnswer
  <2>1. /\ toClient # <<>> /\ toClient' = Tail(toClient) /\ Head(toClient).type \notin {"request"}
        /\ UNCHANGED <<clientBoard, clipReqFormat, toServer, board, loop>>
    BY <1>9 DEF ClientGetsAnswer, FromServer, peerVars, macVars
  <2>2. Of(toClient', {"request"}) = {} <=> Of(toClient, {"request"}) = {}
    BY <1>1, <2>1, OfTailOther
  <2>3. QED
    BY <1>4, <2>1, <2>2, ComingKept DEF Sent, LatestIs, Clean
<1>10. CASE PollAdvertises
  <2>1. UNCHANGED <<clientBoard, clipReqFormat, toServer, board, loop>>
    BY <1>10 DEF PollAdvertises, Polling, clientVars, macVars
  <2>2. List(poll.item) \in Message /\ List(poll.item).type \notin {"request"}
    BY ListIsMessage, MessageTypes DEF Types, PollType
  <2>3. toClient' = Append(toClient, List(poll.item))
    BY <1>10, ToClientAfter
  <2>4. Of(toClient', {"request"}) = Of(toClient, {"request"})
    BY <1>1, <2>2, <2>3, OfAppend
  <2>5. QED
    BY <1>4, <2>1, <2>4, ComingKept DEF Sent, LatestIs, Clean
<1>11. CASE ClientCapabilities \/ ClientFormatDataRequest
  <2>1. /\ toServer # <<>> /\ toServer' = Tail(toServer)
        /\ Head(toServer).type \notin Answer /\ Head(toServer).type \notin {"list"}
        /\ UNCHANGED <<clientBoard, clipReqFormat, board, loop>>
    BY <1>11 DEF ClientCapabilities, ClientFormatDataRequest, FromClient, clientVars, peerVars,
                 Answer
  <2>2. /\ Of(toServer', {"list"}) = {} <=> Of(toServer, {"list"}) = {}
        /\ Of(toServer', Answer) = {} <=> Of(toServer, Answer) = {}
    BY <1>1, <2>1, OfTailOther
  <2>3. Of(toClient', {"request"}) = Of(toClient, {"request"})
    <3>1. CASE ClientCapabilities
      BY <3>1 DEF ClientCapabilities
    <3>2. CASE ClientFormatDataRequest
      <4>1. PICK msg \in Message : msg.type \notin {"request"} /\ toClient' = Append(toClient, msg)
        BY <3>2, ToClientAfter, FailIsMessage, MessageTypes
      <4>2. QED
        BY <1>1, <4>1, OfAppend
    <3>3. QED
      BY <1>11, <3>1, <3>2
  <2>4. Sent => Sent'
    <3> SUFFICES ASSUME Sent PROVE Sent'
      OBVIOUS
    <3>1. LatestIs(Tail(toServer), Answer, Data(clientBoard.item, clipReqFormat))
      BY <1>1, <2>1, LatestTail DEF Sent
    <3>2. QED
      BY <2>1, <2>2, <3>1 DEF Sent
  <2>5. QED
    BY <1>4, <2>1, <2>2, <2>3, <2>4, ComingKept DEF Clean
<1>12. CASE /\ UNCHANGED <<clientBoard, clipReqFormat, toServer, toClient>>
            /\ AppClears \/ AppWrites \/ SetString \/ NoteCount \/ UNCHANGED <<board, loop>>
  <2>1. Clean => Clean'
    BY <1>12, CleanStep DEF Clean
  <2>2. QED
    BY <1>4, <1>12, <2>1, ComingKept DEF Sent, LatestIs
<1>13. QED
  BY <1>1, <1>2, <1>3, <1>5, <1>6, <1>7, <1>8, <1>9, <1>10, <1>11, <1>12
     DEF Frame, PeerReads, ClientReads

LEMMA TextStep == Types /\ TextInv /\ [Next]_vars => TextInv'
BY TextParts, RequestIsLatestStep, ListIsLatestStep, OffIsCleanStep, TextComesStep

-----------------------------------------------------------------------------
(* Where the copies come from that are about after a step.                 *)
ListItems(queue) == {queue[i].item : i \in Lists(queue)}

LEMMA ListItemsAfter ==
  ASSUME Types, [Next]_vars, NEW x \in ListItems(toClient')
  PROVE  x \in ListItems(toClient) \/ (PollAdvertises /\ x = poll.item)
<1>1. toClient \in Seq(Message) /\ Frame
  BY FrameHolds DEF Types, WireType
<1>2. PICK i \in Lists(toClient') : x = toClient'[i].item
  BY DEF ListItems
<1>3. CASE ClientReads
  <2>1. toClient # <<>> /\ toClient' = Tail(toClient)
    BY <1>3, ToClientAfter
  <2>2. i + 1 \in Lists(toClient) /\ x = toClient[i + 1].item
    BY <1>1, <1>2, <2>1, ListsOfTail
  <2>3. QED
    BY <2>2 DEF ListItems
<1>4. CASE (ClientFormatList \/ ClientFormatDataRequest) /\ toClient' # toClient
  <2>1. PICK msg \in Message : msg.type \notin {"list"} /\ toClient' = Append(toClient, msg)
    BY <1>4, ToClientAfter, RequestIsMessage, FailIsMessage, MessageTypes
  <2>2. i \in Lists(toClient) /\ i \in Of(toClient, {"list"})
    BY <1>1, <1>2, <2>1, OfAppend, ListsAreOf
  <2>3. Append(toClient, msg)[i] = toClient[i]
    BY <1>1, <2>1, <2>2, AppendAt
  <2>4. QED
    BY <1>2, <2>1, <2>2, <2>3 DEF ListItems
<1>5. CASE PollAdvertises
  <2> DEFINE msg == List(poll.item)
  <2>1. msg \in Message /\ msg.item = poll.item /\ toClient' = Append(toClient, msg)
    BY <1>5, ToClientAfter, ListIsMessage, MessageTypes DEF Types, PollType
  <2> HIDE DEF msg
  <2>2. CASE i \in Lists(toClient)
    <3>1. Append(toClient, msg)[i] = toClient[i]
      BY <1>1, <2>1, <2>2, AppendAt, ListsAreOf
    <3>2. QED
      BY <1>2, <2>1, <2>2, <3>1 DEF ListItems
  <2>3. CASE i \notin Lists(toClient)
    <3>1. i = Len(toClient) + 1
      BY <1>1, <1>2, <2>1, <2>3, OfAppend, ListsAreOf
    <3>2. toClient'[i] = msg
      BY <1>1, <2>1, <3>1, AppendAt
    <3>3. QED
      BY <1>2, <1>5, <2>1, <3>2
  <2>4. QED
    BY <2>2, <2>3
<1>6. CASE UNCHANGED toClient
  BY <1>2, <1>6 DEF ListItems
<1>7. QED
  BY <1>1, <1>3, <1>4, <1>5, <1>6 DEF Frame

(* What the client gets with a list is what the list was sent for.         *)
LEMMA HeadListItem ==
  ASSUME Types, ClientGetsList
  PROVE  /\ clientBoard' = [item |-> Head(toClient).item, whose |-> "offered"]
         /\ Head(toClient).item \in ListItems(toClient)
<1>1. toClient # <<>> /\ Head(toClient).type = "list"
  BY DEF ClientGetsList, FromServer
<1>2. 1 \in Lists(toClient) /\ Head(toClient) = toClient[1]
  BY <1>1, ListsOfTail DEF Types, WireType
<1>3. QED
  BY <1>2 DEF ClientGetsList, ListItems

LEMMA OffersAfter ==
  ASSUME Types, [Next]_vars, NEW x \in Offers'
  PROVE  x \in Offers \/ x.by = "client" \/ (PollAdvertises /\ x = poll.item)
<1>1. Frame /\ (x = clientBoard'.item \/ x \in ListItems(toClient'))
  BY FrameHolds DEF Offers, ListItems
<1>2. CASE x = clientBoard'.item
  BY <1>1, <1>2, ToServerAfter, HeadListItem DEF Frame, Offers, ListItems
<1>3. CASE x \in ListItems(toClient')
  BY <1>3, ListItemsAfter DEF Offers, ListItems
<1>4. QED
  BY <1>1, <1>2, <1>3

(* What the poll's thread read last.                                       *)
LEMMA PollItemAfter ==
  ASSUME Types, [Next]_vars
  PROVE  /\ poll'.item \in {poll.item, Nothing, board.item}
         /\ PollHasItem' =>
              \/ PollHasItem /\ poll'.item = poll.item /\ (poll' = poll \/ PollSwaps)
              \/ PollReadsItem /\ poll'.at = "swap" /\ poll'.item = board.item
                 /\ Sendable(board.item)
<1>1. PollType /\ board.item \in Item /\ Frame
  BY FrameHolds DEF Types, BoardType
<1>2. CASE UNCHANGED poll
  BY <1>2 DEF PollHasItem
<1>3. CASE StartSync \/ PollDefers \/ PollAdvertises
  BY <1>3 DEF StartSync, PollDefers, PollAdvertises, IdlePoll, PollHasItem
<1>4. CASE PollReadsCount
  BY <1>4 DEF PollReadsCount, IdlePoll, PollHasItem
<1>5. CASE PollCompares
  BY <1>5 DEF PollCompares, IdlePoll, PollHasItem
<1>6. CASE PollReadsItem
  <2> DEFINE Swap == [poll EXCEPT !.at = "swap", !.item = board.item]
  <2>1. Swap.at = "swap" /\ Swap.item = board.item
    BY <1>1 DEF PollType
  <2>2. Skipped(board.item).at = "idle" /\ Skipped(board.item).item = board.item
    BY DEF Skipped, IdlePoll
  <2>3. IdlePoll.at = "idle" /\ IdlePoll.item = Nothing
    BY DEF IdlePoll
  <2>4. poll' \in {IdlePoll, Swap, Skipped(board.item)} /\ (poll' = Swap => Sendable(board.item))
    <3>1. Swap # IdlePoll
      BY <2>1, <2>3
    <3> HIDE DEF Swap
    <3>2. poll' \in IF Sendable(board.item) THEN {Swap, Skipped(board.item)} ELSE {IdlePoll}
      BY <1>6 DEF PollReadsItem, Found, Swap
    <3>3. QED
      BY <3>1, <3>2
  <2> HIDE DEF Swap
  <2>5. QED
    BY <1>6, <2>1, <2>2, <2>3, <2>4 DEF PollHasItem
<1>7. CASE PollSwaps
  BY <1>1, <1>7 DEF PollSwaps, Polling, PollType, PollHasItem
<1>8. QED
  BY <1>1, <1>2, <1>3, <1>4, <1>5, <1>6, <1>7 DEF Frame, PollStep

LEMMA CopiesAfter ==
  ASSUME Types, OriginInv, [Next]_vars, NEW x \in Copies'
  PROVE  \/ x \in Copies \/ x = Nothing \/ x.by = "client"
         \/ AppWrites /\ x = board'.item /\ x.by = "mac" /\ x.n = macCopies
<1>1. /\ board \in [owner : {"app", "us"}, count : Nat, item : Item] /\ Frame
      /\ x \in Offers' \/ x \in {board'.item, held', poll'.item}
  BY FrameHolds DEF Types, BoardType, Copies
<1>2. CASE x \in Offers'
  BY <1>2, OffersAfter DEF Copies
<1>3. CASE x = poll'.item
  BY <1>3, PollItemAfter DEF Copies
<1>4. CASE x = held'
  <2>1. held' = held \/ held' = poll.item
    BY <1>1 DEF Frame, PollSwaps
  <2>2. QED
    BY <1>4, <2>1 DEF Copies
<1>5. CASE x = board'.item
  <2>1. CASE AppClears
    BY <1>5, <2>1 DEF AppClears, Cleared
  <2>2. CASE ClientFormatData
    BY <1>5, <2>2 DEF ClientFormatData, Cleared, Copies
  <2>3. CASE SetString
    <3>1. loop.item.by = "client"
      BY <2>3 DEF SetString, OriginInv, LoopIdle
    <3>2. x = board.item \/ x = loop.item
      BY <1>1, <1>5, <2>3 DEF SetString
    <3>3. QED
      BY <3>1, <3>2 DEF Copies
  <2>4. CASE AppWrites
    <3>1. \E kind \in {"text", "png", "other"} :
            board'.item = [by |-> "mac", n |-> macCopies, kind |-> kind]
      BY <1>1, <2>4 DEF AppWrites
    <3>2. QED
      BY <1>5, <2>4, <3>1
  <2>5. CASE board' = board
    BY <1>5, <2>5 DEF Copies
  <2>6. QED
    BY <1>1, <2>1, <2>2, <2>3, <2>4, <2>5 DEF Frame
<1>6. QED
  BY <1>1, <1>2, <1>3, <1>4, <1>5

-----------------------------------------------------------------------------
(* Who made what, and what an application writes is new.                   *)
LEMMA NothingToGive == \A f \in {"unicode", "ansi", "png"} : ~CanGive(Nothing, f)
<1>1. Nothing.kind = "other"
  BY DEF Nothing
<1>2. Wanted(Nothing) = "no text"
  BY <1>1 DEF Wanted
<1>3. QED
  BY <1>1, <1>2 DEF CanGive

LEMMA OriginStep == Types /\ OriginInv /\ [Next]_vars => OriginInv'
<1> SUFFICES ASSUME Types, OriginInv, [Next]_vars PROVE OriginInv'
  OBVIOUS
<1>1. /\ toServer \in Seq(Message) /\ LoopType /\ clientBoard.item \in Item /\ Frame
  BY FrameHolds DEF Types, WireType, ClientType
<1>2. ASSUME NEW x \in Copies', x.by = "nobody" PROVE x = Nothing
  BY <1>2, CopiesAfter DEF OriginInv
<1>3. PollHasItem' => Sendable(poll'.item)
  BY PollItemAfter DEF OriginInv
<1>4. ASSUME NEW x \in ListItems(toClient') PROVE Sendable(x)
  <2>1. CASE x \in ListItems(toClient)
    BY <2>1 DEF OriginInv, ListItems
  <2>2. CASE PollAdvertises /\ x = poll.item
    BY <2>2 DEF OriginInv, PollAdvertises, Polling, PollHasItem
  <2>3. QED
    BY <2>1, <2>2, ListItemsAfter
<1>5. IF ClientOwns' THEN clientBoard'.item.by # "mac" ELSE Sendable(clientBoard'.item)
  <2>1. CASE ClientCopies
    BY <2>1, ToServerAfter DEF ClientOwns
  <2>2. CASE ClientGetsList
    BY <2>2, HeadListItem DEF ClientOwns, OriginInv, ListItems
  <2>3. CASE UNCHANGED clientBoard
    BY <2>3 DEF ClientOwns, OriginInv
  <2>4. QED
    BY <1>1, <2>1, <2>2, <2>3 DEF Frame
<1>6. ASSUME NEW i \in Of(toServer', {"data"}) PROVE toServer'[i].item.by = "client"
  <2>1. CASE PeerReads
    <3>1. toServer # <<>> /\ toServer' = Tail(toServer)
      BY <2>1, ToServerAfter
    <3>2. i + 1 \in Of(toServer, {"data"}) /\ toServer'[i] = toServer[i + 1]
      BY <1>1, <1>6, <3>1, OfTail
    <3>3. QED
      BY <3>2 DEF OriginInv
  <2>2. ASSUME NEW msg \in Message, toServer' = Append(toServer, msg),
               msg.type = "data" => msg.item.by = "client"
        PROVE  toServer'[i].item.by = "client"
    <3>1. CASE i \in Of(toServer, {"data"})
      <4>1. Append(toServer, msg)[i] = toServer[i]
        BY <1>1, <3>1, AppendAt
      <4>2. QED
        BY <2>2, <3>1, <4>1 DEF OriginInv
    <3>2. CASE i \notin Of(toServer, {"data"})
      <4>1. msg.type = "data" /\ i = Len(toServer) + 1
        BY <1>1, <1>6, <2>2, <3>2, OfAppend
      <4>2. toServer'[i] = msg
        BY <1>1, <2>2, <4>1, AppendAt
      <4>3. QED
        BY <2>2, <4>1, <4>2
    <3>3. QED
      BY <3>1, <3>2
  <2>3. CASE ClientCopies \/ ClientPastes
    <3>1. \E msg \in Message : toServer' = Append(toServer, msg) /\ msg.type # "data"
      BY <1>1, <2>3, ToServerAfter, ListIsMessage, FormatValues, RequestIsMessage, MessageTypes
    <3>2. QED
      BY <2>2, <3>1
  <2>4. CASE ClientGetsRequest
    <3>1. CASE toServer' = Append(toServer, Fail)
      BY <2>2, <3>1, FailIsMessage, MessageTypes
    <3>2. CASE toServer' # Append(toServer, Fail)
      <4> DEFINE msg == Data(clientBoard.item, Head(toClient).format)
      <4>1. /\ toServer' = Append(toServer, msg) /\ ClientOwns
            /\ CanGive(clientBoard.item, Head(toClient).format)
            /\ Head(toClient).format \in {"unicode", "ansi", "png"}
        BY <2>4, <3>2, ToServerAfter
      <4>2. clientBoard.item # Nothing
        BY <4>1, NothingToGive
      <4>3. clientBoard.item.by = "client"
        BY <1>1, <4>1, <4>2 DEF OriginInv, Copies, Offers, Item
      <4>4. msg \in Message /\ msg.item.by = "client"
        BY <1>1, <4>1, <4>3, DataIsMessage, MessageTypes
      <4> HIDE DEF msg
      <4>5. QED
        BY <2>2, <4>1, <4>4
    <3>3. QED
      BY <3>1, <3>2
  <2>5. CASE UNCHANGED toServer
    BY <1>6, <2>5 DEF OriginInv
  <2>6. QED
    BY <1>1, <2>1, <2>3, <2>4, <2>5 DEF Frame
<1>7. ~LoopIdle' => loop'.item.by = "client"
  <2>1. CASE ClientFormatData
    <3>1. /\ toServer # <<>> /\ Head(toServer).type = "data"
      BY <2>1 DEF ClientFormatData, FromClient
    <3>2. Head(toServer).item.by = "client" /\ Head(toServer).item \in Item
      BY <1>1, <3>1, OfTail, HeadIsMessage, MessageFields DEF OriginInv
    <3>3. \A item \in Decoded(Head(toServer)) : item = Nothing \/ item.by = "client"
      BY <3>2 DEF Decoded, Garble, Item
    <3>4. QED
      BY <2>1, <3>3 DEF ClientFormatData, FromClient, LoopIdle, IdleLoop
  <2>2. CASE SetString
    BY <1>1, <2>2 DEF SetString, LoopType, LoopIdle, OriginInv
  <2>3. CASE NoteCount
    BY <2>3 DEF NoteCount, IdleLoop, LoopIdle
  <2>4. CASE UNCHANGED loop
    BY <2>4 DEF LoopIdle, OriginInv
  <2>5. QED
    BY <1>1, <2>1, <2>2, <2>3, <2>4 DEF Frame
<1>8. QED
  BY <1>2, <1>3, <1>4, <1>5, <1>6, <1>7 DEF OriginInv, ListItems

LEMMA FreshStep == Types /\ OriginInv /\ FreshInv /\ [Next]_vars => FreshInv'
<1> SUFFICES ASSUME Types, OriginInv, FreshInv, [Next]_vars, NEW x \in Copies'
             PROVE  Fresh(x)'
  BY DEF FreshInv
<1>1. /\ board \in [owner : {"app", "us"}, count : Nat, item : Item] /\ macCopies \in Nat
      /\ Frame
  BY FrameHolds DEF Types, BoardType, CopiesType
<1>2. macCopies' = macCopies \/ macCopies' = macCopies + 1
  BY <1>1 DEF Frame, AppClears
<1>3. CASE x \in Copies /\ x.by = "mac"
  <2>1. x.n <= macCopies /\ x.n \in Nat
    <3>1. x \in Item
      <4>1. \A i \in Lists(toClient) : toClient[i].item \in Item
        BY OfIsNat, ListsAreOf, MessageFields DEF Types, WireType
      <4>2. QED
        BY <1>1, <1>3, <4>1 DEF Copies, Offers, Types, ClientType, PeerType, PollType
    <3>2. QED
      BY <1>3, <3>1 DEF FreshInv, Fresh, Item
  <2>2. ASSUME board'.owner = "app", board'.item = Nothing PROVE x.n < macCopies'
    <3>1. CASE AppClears
      BY <1>1, <2>1, <3>1 DEF AppClears
    <3>2. CASE AppWrites
      <4>1. board'.item.by = "mac"
        BY <1>1, <3>2 DEF AppWrites
      <4>2. QED
        BY <2>2, <4>1, NothingIsItem
    <3>3. CASE ClientFormatData
      <4>1. board' = board
        BY <2>2, <3>3 DEF ClientFormatData, Cleared
      <4>2. QED
        BY <1>1, <1>2, <1>3, <2>1, <2>2, <4>1 DEF FreshInv, Fresh
    <3>4. CASE SetString
      <4>1. board' = board
        BY <1>1, <2>2, <3>4 DEF SetString
      <4>2. QED
        BY <1>1, <1>2, <1>3, <2>1, <2>2, <4>1 DEF FreshInv, Fresh
    <3>5. CASE board' = board
      BY <1>1, <1>2, <1>3, <2>1, <2>2, <3>5 DEF FreshInv, Fresh
    <3>6. QED
      BY <1>1, <3>1, <3>2, <3>3, <3>4, <3>5 DEF Frame
  <2>3. QED
    BY <1>1, <1>2, <2>1, <2>2 DEF Fresh
<1>4. CASE AppWrites /\ x = board'.item /\ x.by = "mac" /\ x.n = macCopies
  BY <1>1, <1>4, NothingIsItem DEF AppWrites, Fresh
<1>5. CASE x.by # "mac"
  BY <1>5 DEF Fresh
<1>6. QED
  BY <1>3, <1>4, <1>5, CopiesAfter, NothingIsItem

-----------------------------------------------------------------------------
(* One paste at a time.                                                    *)
AtMostOne(S) == \A i, j \in S : i = j

Asks == Of(toServer, {"request"})

Answers == Of(toClient, Answer)

(* A request for this format comes after all the data in the queue.        *)
AskAfterData(queue, format) ==
  \A i \in Of(queue, {"request"}) :
    queue[i].format = format /\ \A j \in Of(queue, {"data"}) : j < i

LEMMA OnePasteParts ==
  /\ OnePasteInv <=>
       /\ AtMostOne(Asks) /\ AtMostOne(Answers) /\ (Asks = {} \/ Answers = {})
       /\ pasted \in {"nothing", "refused"} => Asks = {} /\ Answers = {}
       /\ pasted \in {"asked", "refused"} => ~ClientOwns
       /\ pasted = "asked" => AskAfterData(toServer, Format(clientBoard.item))
  /\ OnePasteInv' <=>
       /\ AtMostOne(Asks') /\ AtMostOne(Answers') /\ (Asks' = {} \/ Answers' = {})
       /\ pasted' \in {"nothing", "refused"} => Asks' = {} /\ Answers' = {}
       /\ pasted' \in {"asked", "refused"} => ~ClientOwns'
       /\ pasted' = "asked" => AskAfterData(toServer', Format(clientBoard'.item))
BY DEF OnePasteInv, AtMostOne, Asks, Answers, AskAfterData

LEMMA OneOfTail ==
  ASSUME NEW queue \in Seq(Message), queue # <<>>, NEW types, AtMostOne(Of(queue, types))
  PROVE  /\ AtMostOne(Of(Tail(queue), types))
         /\ Of(queue, types) = {} => Of(Tail(queue), types) = {}
         /\ Head(queue).type \in types => Of(Tail(queue), types) = {}
<1>1. ASSUME NEW i \in Of(Tail(queue), types)
      PROVE  i \in Nat /\ i >= 1 /\ i + 1 \in Of(queue, types)
  BY OfTail
<1>2. AtMostOne(Of(Tail(queue), types))
  <2> SUFFICES ASSUME NEW i \in Of(Tail(queue), types), NEW j \in Of(Tail(queue), types)
               PROVE  i = j
    BY DEF AtMostOne
  <2>1. i + 1 = j + 1 /\ i \in Nat /\ j \in Nat
    BY <1>1 DEF AtMostOne
  <2>2. QED
    BY <2>1
<1>3. ASSUME Head(queue).type \in types PROVE Of(Tail(queue), types) = {}
  <2> SUFFICES ASSUME NEW i \in Of(Tail(queue), types) PROVE FALSE
    OBVIOUS
  <2>1. 1 \in Of(queue, types)
    BY <1>3, OfTail
  <2>2. i + 1 = 1 /\ i \in Nat /\ i >= 1
    BY <1>1, <2>1 DEF AtMostOne
  <2>3. QED
    BY <2>2
<1>4. QED
  BY <1>1, <1>2, <1>3

LEMMA OneOfAppend ==
  ASSUME NEW queue \in Seq(Message), NEW msg \in Message, NEW types, Of(queue, types) = {}
  PROVE  AtMostOne(Of(Append(queue, msg), types))
<1>1. Of(Append(queue, msg), types) \subseteq {Len(queue) + 1}
  BY OfAppend
<1>2. QED
  BY <1>1 DEF AtMostOne

LEMMA AskTail ==
  ASSUME NEW queue \in Seq(Message), queue # <<>>, NEW format, AskAfterData(queue, format)
  PROVE  AskAfterData(Tail(queue), format)
<1> SUFFICES ASSUME NEW i \in Of(Tail(queue), {"request"})
             PROVE  /\ Tail(queue)[i].format = format
                    /\ \A j \in Of(Tail(queue), {"data"}) : j < i
  BY DEF AskAfterData
<1>1. i \in Nat /\ i + 1 \in Of(queue, {"request"}) /\ Tail(queue)[i] = queue[i + 1]
  BY OfTail
<1>2. queue[i + 1].format = format /\ \A j \in Of(queue, {"data"}) : j < i + 1
  BY <1>1 DEF AskAfterData
<1>3. ASSUME NEW j \in Of(Tail(queue), {"data"}) PROVE j < i
  <2>1. j \in Nat /\ j + 1 \in Of(queue, {"data"})
    BY OfTail
  <2>2. j + 1 < i + 1
    BY <1>2, <2>1
  <2>3. QED
    BY <1>1, <2>1, <2>2
<1>4. QED
  BY <1>1, <1>2, <1>3

LEMMA AskAppendOther ==
  ASSUME NEW queue \in Seq(Message), NEW msg \in Message, msg.type \notin {"request", "data"},
         NEW format, AskAfterData(queue, format)
  PROVE  AskAfterData(Append(queue, msg), format)
<1>1. /\ Of(Append(queue, msg), {"request"}) = Of(queue, {"request"})
      /\ Of(Append(queue, msg), {"data"}) = Of(queue, {"data"})
  BY OfAppend
<1>2. ASSUME NEW i \in Of(queue, {"request"}) PROVE Append(queue, msg)[i] = queue[i]
  BY AppendAt
<1>3. QED
  BY <1>1, <1>2 DEF AskAfterData

LEMMA AskAppend ==
  ASSUME NEW queue \in Seq(Message), NEW format \in {"unicode", "ansi", "png"},
         Of(queue, {"request"}) = {}
  PROVE  AskAfterData(Append(queue, Request(format)), format)
<1> DEFINE msg == Request(format)
<1>1. msg \in Message /\ msg.type = "request" /\ msg.format = format
  BY RequestIsMessage, MessageTypes
<1> HIDE DEF msg
<1>2. /\ Of(Append(queue, msg), {"request"}) = {Len(queue) + 1}
      /\ Of(Append(queue, msg), {"data"}) = Of(queue, {"data"})
  BY <1>1, OfAppend
<1>3. Append(queue, msg)[Len(queue) + 1] = msg
  BY <1>1, AppendAt
<1>4. Len(queue) \in Nat /\ \A j \in Of(queue, {"data"}) : j \in Nat /\ j <= Len(queue)
  BY OfIsNat
<1>5. ASSUME NEW j \in Of(queue, {"data"}) PROVE j < Len(queue) + 1
  BY <1>4, <1>5
<1>6. AskAfterData(Append(queue, msg), format)
  BY <1>1, <1>2, <1>3, <1>5 DEF AskAfterData
<1>7. QED
  BY <1>6 DEF msg

LEMMA OnePasteStep == Types /\ OnePasteInv /\ [Next]_vars => OnePasteInv'
<1> SUFFICES ASSUME Types, OnePasteInv, [Next]_vars PROVE OnePasteInv'
  OBVIOUS
<1>1. /\ toServer \in Seq(Message) /\ toClient \in Seq(Message)
      /\ clientBoard.item \in Item /\ Frame
      /\ pasted \in {"nothing", "asked", "stale", "refused"}
  BY FrameHolds DEF Types, WireType, ClientType
<1>2. /\ AtMostOne(Asks) /\ AtMostOne(Answers) /\ (Asks = {} \/ Answers = {})
      /\ pasted \in {"nothing", "refused"} => Asks = {} /\ Answers = {}
      /\ pasted \in {"asked", "refused"} => ~ClientOwns
      /\ pasted = "asked" => AskAfterData(toServer, Format(clientBoard.item))
  BY OnePasteParts
<1>3. CASE ClientCopies
  <2>1. PICK item \in Item : toServer' = Append(toServer, List(item))
    BY <1>3, ToServerAfter
  <2>2. List(item) \in Message /\ List(item).type \notin {"request"}
    BY ListIsMessage, MessageTypes
  <2>3. Asks' = Asks
    BY <1>1, <2>1, <2>2, OfAppend DEF Asks
  <2>4. Answers' = Answers /\ pasted' \in {"stale", "nothing"}
        /\ (pasted' = "nothing" => pasted \in {"nothing", "refused"})
    BY <1>1, <1>3 DEF ClientCopies, Answers
  <2>5. QED
    BY <1>2, <2>3, <2>4, OnePasteParts
<1>4. CASE ClientPastes
  <2>1. /\ ~ClientOwns /\ pasted = "nothing" /\ pasted' = "asked"
        /\ UNCHANGED <<clientBoard, toClient>>
        /\ toServer' = Append(toServer, Request(Format(clientBoard.item)))
    BY <1>4 DEF ClientPastes
  <2>2. /\ Format(clientBoard.item) \in {"unicode", "ansi", "png"}
        /\ Request(Format(clientBoard.item)) \in Message
    BY <1>1, FormatValues, RequestIsMessage
  <2>3. Asks = {} /\ Answers' = {}
    BY <1>2, <2>1 DEF Answers
  <2>4. AtMostOne(Asks')
    BY <1>1, <2>1, <2>2, <2>3, OneOfAppend DEF Asks
  <2>5. AskAfterData(toServer', Format(clientBoard'.item))
    BY <1>1, <2>1, <2>2, <2>3, AskAppend DEF Asks
  <2>6. QED
    BY <2>1, <2>3, <2>4, <2>5, OnePasteParts DEF AtMostOne, ClientOwns
<1>5. CASE ClientGetsList
  <2>1. /\ toClient # <<>> /\ toClient' = Tail(toClient) /\ UNCHANGED toServer
        /\ pasted' = IF pasted \in {"asked", "stale"} THEN "stale" ELSE "nothing"
    BY <1>5 DEF ClientGetsList, FromServer
  <2>2. AtMostOne(Answers') /\ (Answers = {} => Answers' = {}) /\ Asks' = Asks
    BY <1>1, <1>2, <2>1, OneOfTail DEF Answers, Asks
  <2>3. QED
    BY <1>1, <1>2, <2>1, <2>2, OnePasteParts
<1>6. CASE ClientGetsRequest
  <2>1. /\ toClient # <<>> /\ toClient' = Tail(toClient) /\ UNCHANGED <<pasted, clientBoard>>
    BY <1>6 DEF ClientGetsRequest, FromServer
  <2>2. \E msg \in Message : /\ msg.type \in {"data", "fail"} /\ toServer' = Append(toServer, msg)
                             /\ msg.type = "data" => ClientOwns
    BY <1>6, ToServerAfter, DataIsMessage, FailIsMessage, MessageTypes
  <2>3. AtMostOne(Answers') /\ (Answers = {} => Answers' = {})
    BY <1>1, <1>2, <2>1, OneOfTail DEF Answers
  <2>4. Asks' = Asks
    BY <1>1, <2>2, OfAppend DEF Asks
  <2>5. ASSUME pasted' = "asked" PROVE AskAfterData(toServer', Format(clientBoard'.item))
    <3>1. PICK msg \in Message : /\ msg.type \notin {"request", "data"}
                                 /\ toServer' = Append(toServer, msg)
      BY <1>2, <2>1, <2>2, <2>5
    <3>2. AskAfterData(toServer, Format(clientBoard.item))
      BY <1>2, <2>1, <2>5
    <3>3. AskAfterData(Append(toServer, msg), Format(clientBoard.item))
      BY <1>1, <3>1, <3>2, AskAppendOther
    <3>4. QED
      BY <2>1, <3>1, <3>3
  <2>6. QED
    BY <1>2, <2>1, <2>3, <2>4, <2>5, OnePasteParts DEF ClientOwns
<1>7. CASE ClientGetsAnswer
  <2>1. /\ toClient # <<>> /\ toClient' = Tail(toClient) /\ Head(toClient).type \in Answer
        /\ UNCHANGED <<toServer, clientBoard>>
        /\ pasted' = "nothing" \/ (pasted = "asked" /\ pasted' = "refused")
    BY <1>7 DEF ClientGetsAnswer, FromServer, Answer
  <2>2. Answers' = {} /\ Answers # {} /\ Asks' = Asks
    BY <1>1, <1>2, <2>1, OneOfTail, OfTail DEF Answers, Asks
  <2>3. QED
    BY <1>2, <2>1, <2>2, OnePasteParts DEF AtMostOne, ClientOwns
<1>8. CASE ClientFormatDataRequest
  <2>1. /\ toServer # <<>> /\ toServer' = Tail(toServer) /\ Head(toServer).type \in {"request"}
        /\ UNCHANGED <<clientBoard, pasted>>
    BY <1>8 DEF ClientFormatDataRequest, FromClient, clientVars
  <2>2. Asks # {} /\ Asks' = {}
    BY <1>1, <1>2, <2>1, OneOfTail, OfTail DEF Asks
  <2>3. PICK msg \in Message : toClient' = Append(toClient, msg)
    BY <1>8, ToClientAfter, FailIsMessage
  <2>4. AtMostOne(Answers')
    BY <1>1, <1>2, <2>2, <2>3, OneOfAppend DEF Answers
  <2>5. AskAfterData(toServer', Format(clientBoard'.item))
    BY <2>2 DEF AskAfterData, Asks
  <2>6. QED
    BY <1>2, <2>1, <2>2, <2>4, <2>5, OnePasteParts DEF AtMostOne, ClientOwns
<1>9. CASE ClientCapabilities \/ ClientFormatList \/ ClientFormatData \/ ClientFormatDataFails
  <2>1. /\ toServer # <<>> /\ toServer' = Tail(toServer) /\ UNCHANGED <<clientBoard, pasted>>
    BY <1>9 DEF ClientCapabilities, ClientFormatList, ClientFormatData, ClientFormatDataFails,
                FromClient, clientVars
  <2>2. AtMostOne(Asks') /\ (Asks = {} => Asks' = {})
    BY <1>1, <1>2, <2>1, OneOfTail DEF Asks
  <2>3. Answers' = Answers
    <3>1. CASE UNCHANGED toClient
      BY <3>1 DEF Answers
    <3>2. CASE ClientFormatList /\ toClient' # toClient
      <4>1. PICK msg \in Message : msg.type \notin Answer /\ toClient' = Append(toClient, msg)
        BY <3>2, ToClientAfter, RequestIsMessage, MessageTypes DEF Answer
      <4>2. QED
        BY <1>1, <4>1, OfAppend DEF Answers
    <3>3. QED
      BY <1>9, <3>1, <3>2 DEF ClientCapabilities, ClientFormatData, ClientFormatDataFails
  <2>4. pasted' = "asked" => AskAfterData(toServer', Format(clientBoard'.item))
    BY <1>1, <1>2, <2>1, AskTail
  <2>5. QED
    BY <1>2, <2>1, <2>2, <2>3, <2>4, OnePasteParts DEF ClientOwns
<1>10. CASE PollAdvertises
  <2>1. UNCHANGED <<clientBoard, pasted, toServer>>
    BY <1>10 DEF PollAdvertises, Polling, clientVars
  <2>2. PICK msg \in Message : msg.type \notin Answer /\ toClient' = Append(toClient, msg)
    BY <1>10, ToClientAfter, ListIsMessage, MessageTypes DEF Answer, Types, PollType
  <2>3. Answers' = Answers
    BY <1>1, <2>2, OfAppend DEF Answers
  <2>4. QED
    BY <1>2, <2>1, <2>3, OnePasteParts DEF Asks, ClientOwns
<1>11. CASE UNCHANGED <<clientBoard, pasted, toServer, toClient>>
  BY <1>2, <1>11, OnePasteParts DEF Asks, Answers, ClientOwns
<1>12. QED
  BY <1>1, <1>3, <1>4, <1>5, <1>6, <1>7, <1>8, <1>9, <1>10, <1>11
     DEF Frame, PeerReads, ClientReads

-----------------------------------------------------------------------------
(* What is on the pasteboard after a step.                                 *)
LEMMA BoardItemAfter ==
  ASSUME Types, OriginInv, [Next]_vars
  PROVE  \/ board' = board
         \/ /\ board'.item = Nothing /\ board'.count = board.count + 1
            /\ AppClears \/ (ClientFormatData /\ poll.at # "off")
         \/ /\ AppWrites /\ board.owner = "app" /\ board.item = Nothing
            /\ board'.item.by = "mac" /\ board'.item.n = macCopies
         \/ SetString /\ board'.item = loop.item /\ loop.item.by = "client"
<1>1. /\ board \in [owner : {"app", "us"}, count : Nat, item : Item] /\ Frame
  BY FrameHolds DEF Types, BoardType
<1>2. CASE AppClears
  BY <1>2 DEF AppClears, Cleared
<1>3. CASE ClientFormatData
  BY <1>3 DEF ClientFormatData, Cleared
<1>4. CASE AppWrites
  <2>1. board.owner = "app" /\ board.item = Nothing
    BY <1>4 DEF AppWrites
  <2>2. board'.item.by = "mac" /\ board'.item.n = macCopies
    BY <1>1, <1>4 DEF AppWrites
  <2>3. QED
    BY <1>4, <2>1, <2>2
<1>5. CASE SetString
  <2>1. loop.item.by = "client"
    BY <1>5 DEF SetString, OriginInv, LoopIdle
  <2>2. board' = board \/ board'.item = loop.item
    BY <1>1, <1>5 DEF SetString
  <2>3. QED
    BY <1>5, <2>1, <2>2
<1>6. QED
  BY <1>1, <1>2, <1>3, <1>4, <1>5 DEF Frame

(* A copy of the Mac's that has left the pasteboard does not come back.    *)
LEMMA MacCopyStaysOff ==
  ASSUME Types, OriginInv, FreshInv, [Next]_vars,
         NEW x \in Copies, x.by = "mac", x = board'.item
  PROVE  board' = board
<1>1. x # Nothing
  BY NothingIsItem
<1>2. CASE AppWrites /\ board.owner = "app" /\ board.item = Nothing /\ board'.item.n = macCopies
  <2>1. x.n < macCopies /\ x.n = macCopies
    BY <1>2 DEF FreshInv, Fresh
  <2>2. QED
    BY <2>1 DEF Types, CopiesType
<1>3. QED
  BY <1>1, <1>2, BoardItemAfter

OffersAreGone ==
  \A item \in Offers :
    item.by = "mac" /\ item # held
      => item # board.item /\ (PollHasItem => item # poll.item)

HeldIsGone ==
  poll.at = "swap" /\ held.by = "mac" /\ held # poll.item => held # board.item

ReceivedIsNoted ==
  board.item.by = "client" /\ PollHasItem /\ poll.item # board.item /\ LoopIdle
    => board.count = lastChangeCount

LEMMA SupersededParts ==
  /\ SupersededInv <=> OffersAreGone /\ HeldIsGone /\ ReceivedIsNoted
  /\ SupersededInv' <=> OffersAreGone' /\ HeldIsGone' /\ ReceivedIsNoted'
BY DEF SupersededInv, OffersAreGone, HeldIsGone, ReceivedIsNoted

LEMMA OffersAreGoneStep ==
  ASSUME Types, Offer, OriginInv, FreshInv, SupersededInv, [Next]_vars
  PROVE  OffersAreGone'
<1> SUFFICES ASSUME NEW x \in Offers', x.by = "mac", x # held'
             PROVE  x # board'.item /\ (PollHasItem' => x # poll'.item)
  BY DEF OffersAreGone
<1>1. Frame /\ OffersAreGone /\ HeldIsGone
  BY FrameHolds, SupersededParts
<1>2. CASE x \notin Offers
  <2>1. PollAdvertises /\ x = poll.item
    BY <1>2, OffersAfter
  <2>2. held' = held /\ poll.item = held
    BY <2>1 DEF PollAdvertises, Polling, Offer
  <2>3. QED
    BY <2>1, <2>2
<1>3. CASE x \in Offers
  <2>1. x = board'.item => x = board.item
    BY <1>3, MacCopyStaysOff DEF Copies
  <2>2. CASE PollSwaps
    <3>1. held' = poll.item /\ poll.at = "swap" /\ board' = board
      BY <2>2 DEF PollSwaps, Polling, macVars
    <3>2. PollHasItem' => poll'.item = poll.item
      BY <2>2, PollAfter DEF Types
    <3>3. x # board.item
      BY <1>1, <1>3, <3>1 DEF OffersAreGone, HeldIsGone
    <3>4. QED
      BY <3>1, <3>2, <3>3
  <2>3. CASE held' = held
    <3>1. x # board.item /\ (PollHasItem => x # poll.item)
      BY <1>1, <1>3, <2>3 DEF OffersAreGone
    <3>2. PollHasItem' => \/ PollHasItem /\ poll'.item = poll.item
                          \/ poll'.item = board.item
      BY PollItemAfter
    <3>3. QED
      BY <2>1, <3>1, <3>2
  <2>4. QED
    BY <1>1, <2>2, <2>3 DEF Frame
<1>4. QED
  BY <1>2, <1>3

LEMMA HeldIsGoneStep ==
  ASSUME Types, OriginInv, FreshInv, SupersededInv, [Next]_vars
  PROVE  HeldIsGone'
<1> SUFFICES ASSUME poll'.at = "swap", held'.by = "mac", held' # poll'.item
             PROVE  held' # board'.item
  BY DEF HeldIsGone
<1>1. Frame /\ HeldIsGone /\ ~PollSwaps
  BY FrameHolds, SupersededParts, PollAfter DEF Types
<1>2. held' = held
  BY <1>1 DEF Frame
<1>3. CASE PollReadsItem /\ poll'.item = board.item
  BY <1>3 DEF PollReadsItem, Polling, macVars
<1>4. CASE poll' = poll
  <2>1. held # board.item
    BY <1>1, <1>2, <1>4 DEF HeldIsGone
  <2>2. QED
    BY <1>2, <2>1, MacCopyStaysOff DEF Copies
<1>5. QED
  BY <1>1, <1>3, <1>4, PollItemAfter DEF PollHasItem

LEMMA ReceivedIsNotedStep ==
  ASSUME Types, OriginInv, SupersededInv, [Next]_vars
  PROVE  ReceivedIsNoted'
<1> SUFFICES ASSUME board'.item.by = "client", PollHasItem', poll'.item # board'.item,
                    LoopIdle'
             PROVE  board'.count = lastChangeCount'
  BY DEF ReceivedIsNoted
<1>1. Frame /\ ReceivedIsNoted /\ PollType /\ LoopType
  BY FrameHolds, SupersededParts DEF Types
<1>2. ~SetString
  BY <1>1 DEF SetString, LoopIdle, LoopType
<1>3. board' = board
  BY <1>2, BoardItemAfter, NothingIsItem
<1>4. CASE PollReadsItem /\ poll'.item = board.item
  BY <1>3, <1>4
<1>5. CASE PollHasItem /\ poll'.item = poll.item /\ (poll' = poll \/ PollSwaps)
  <2>1. CASE NoteCount
    BY <1>3, <2>1 DEF NoteCount
  <2>2. CASE ~NoteCount
    <3>1. ~StartSync /\ ~PollCompares
      BY <1>1, <1>5, PollAfter DEF PollHasItem, StartSync, PollCompares, Polling
    <3>2. loop' = loop
      <4>1. ~ClientFormatData
        <5> SUFFICES ASSUME ClientFormatData PROVE FALSE
          OBVIOUS
        <5>1. poll.at # "off"
          BY <1>5 DEF PollHasItem
        <5>2. board'.item = Nothing
          BY <5>1 DEF ClientFormatData, Cleared
        <5>3. QED
          BY <5>2, NothingIsItem
      <4>2. QED
        BY <1>1, <1>2, <2>2, <4>1 DEF Frame
    <3>3. QED
      BY <1>1, <1>3, <1>5, <2>2, <3>1, <3>2 DEF Frame, ReceivedIsNoted, LoopIdle
  <2>3. QED
    BY <2>1, <2>2
<1>6. QED
  BY <1>4, <1>5, PollItemAfter

LEMMA SupersededStep ==
  Types /\ Offer /\ OriginInv /\ FreshInv /\ SupersededInv /\ [Next]_vars => SupersededInv'
BY SupersededParts, OffersAreGoneStep, HeldIsGoneStep, ReceivedIsNotedStep

-----------------------------------------------------------------------------
(* A paste is refused by the peer's failure, read with no list before it,  *)
(* and the client keeps what it was offered meanwhile.                     *)
FailSent ==
  /\ ClientFormatDataRequest /\ pasted = "asked" /\ Lists(toClient) = {}
  /\ held = Nothing \/ Format(held) # Head(toServer).format

FailFirst(queue) == \E i \in Of(queue, {"fail"}) : \A j \in Lists(queue) : i < j

LEMMA RefusalParts ==
  /\ Refusal <=> pasted = "refused" \/ (pasted = "asked" /\ FailFirst(toClient))
  /\ Refusal' <=> pasted' = "refused" \/ (pasted' = "asked" /\ FailFirst(toClient'))
BY DEF Refusal, FailFirst

LEMMA FailFirstOfTail ==
  ASSUME NEW queue \in Seq(Message), queue # <<>>, Head(queue).type # "list",
         FailFirst(Tail(queue))
  PROVE  FailFirst(queue)
<1>1. PICK i \in Of(Tail(queue), {"fail"}) : \A j \in Lists(Tail(queue)) : i < j
  BY DEF FailFirst
<1>2. i \in Nat /\ i + 1 \in Of(queue, {"fail"})
  BY OfTail
<1>3. ASSUME NEW j \in Lists(queue) PROVE i + 1 < j
  <2>1. j \in Nat /\ j # 1 /\ j - 1 \in Lists(Tail(queue))
    BY <1>3, ListsAreOf, OfTail, OfIsNat
  <2>2. i < j - 1
    BY <1>1, <2>1
  <2>3. QED
    BY <1>2, <2>1, <2>2
<1>4. QED
  BY <1>2, <1>3 DEF FailFirst

LEMMA FailFirstOfAppend ==
  ASSUME NEW queue \in Seq(Message), NEW msg \in Message, FailFirst(Append(queue, msg))
  PROVE  FailFirst(queue) \/ (msg.type = "fail" /\ Lists(queue) = {})
<1>1. PICK i \in Of(Append(queue, msg), {"fail"}) :
        \A j \in Lists(Append(queue, msg)) : i < j
  BY DEF FailFirst
<1>2. Lists(queue) \subseteq Lists(Append(queue, msg))
  BY ListsAreOf, OfAppend
<1>3. CASE i \in Of(queue, {"fail"})
  BY <1>1, <1>2, <1>3 DEF FailFirst
<1>4. CASE i \notin Of(queue, {"fail"})
  <2>1. msg.type = "fail" /\ i = Len(queue) + 1
    BY <1>4, OfAppend
  <2>2. ASSUME NEW j \in Lists(queue) PROVE FALSE
    <3>1. j \in Nat /\ j <= Len(queue) /\ Len(queue) \in Nat
      BY <2>2, ListsAreOf, OfIsNat
    <3>2. i < j
      BY <1>1, <1>2, <2>2
    <3>3. QED
      BY <2>1, <3>1, <3>2
  <2>3. QED
    BY <2>1, <2>2
<1>5. QED
  BY <1>3, <1>4

LEMMA RefusalAfter ==
  ASSUME Types, OnePasteInv, [Next]_vars, Refusal'
  PROVE  /\ clientBoard' = clientBoard /\ ~ClientCopies /\ ~ClientPastes
         /\ Refusal \/ FailSent
<1>1. toClient \in Seq(Message) /\ Frame
  BY FrameHolds DEF Types, WireType
<1>2. pasted' \in {"asked", "refused"}
  BY RefusalParts
<1>3. ~ClientCopies /\ ~ClientGetsList
  BY <1>2 DEF ClientCopies, ClientGetsList
<1>4. ~ClientPastes
  <2> SUFFICES ASSUME ClientPastes PROVE FALSE
    OBVIOUS
  <2>1. pasted = "nothing" /\ pasted' = "asked" /\ toClient' = toClient
    BY DEF ClientPastes
  <2>2. Of(toClient, Answer) = {}
    BY <2>1, OnePasteParts DEF Answers
  <2>3. PICK i \in Of(toClient, {"fail"}) : TRUE
    BY <2>1, RefusalParts DEF FailFirst
  <2>4. QED
    BY <2>2, <2>3 DEF Of, Answer
<1>5. CASE ClientGetsAnswer
  <2>1. toClient # <<>> /\ Head(toClient).type = "fail" /\ pasted = "asked"
    BY <1>2, <1>5 DEF ClientGetsAnswer, FromServer
  <2>2. 1 \in Of(toClient, {"fail"})
    BY <1>1, <2>1, OfTail
  <2>3. \A j \in Lists(toClient) : 1 < j
    <3>1. \A j \in Lists(toClient) : j \in Nat /\ j >= 1 /\ j # 1
      BY <1>1, <2>1, ListsAreOf, OfIsNat, OfTail
    <3>2. QED
      BY <3>1
  <2>4. QED
    BY <1>1, <1>3, <1>4, <2>1, <2>2, <2>3, RefusalParts DEF Frame, FailFirst
<1>6. CASE pasted' = pasted /\ pasted = "asked"
  <2>1. FailFirst(toClient')
    BY <1>6, RefusalParts
  <2>2. CASE ClientGetsRequest
    <3>1. /\ toClient # <<>> /\ toClient' = Tail(toClient) /\ Head(toClient).type # "list"
      BY <2>2 DEF ClientGetsRequest, FromServer
    <3>2. QED
      BY <1>1, <1>3, <1>4, <1>6, <2>1, <3>1, FailFirstOfTail, RefusalParts DEF Frame
  <2>3. CASE ClientFormatDataRequest
    <3>1. CASE held # Nothing /\ Format(held) = Head(toServer).format
      <4>1. PICK msg \in Message : msg.type = "data" /\ toClient' = Append(toClient, msg)
        BY <2>3, <3>1, ToClientAfter
      <4>2. FailFirst(toClient)
        BY <1>1, <2>1, <4>1, FailFirstOfAppend
      <4>3. QED
        BY <1>1, <1>3, <1>4, <1>6, <4>2, RefusalParts DEF Frame
    <3>2. CASE ~(held # Nothing /\ Format(held) = Head(toServer).format)
      <4>1. toClient' = Append(toClient, Fail)
        BY <2>3, <3>2, ToClientAfter
      <4>2. FailFirst(toClient) \/ Lists(toClient) = {}
        BY <1>1, <2>1, <4>1, FailIsMessage, FailFirstOfAppend
      <4>3. QED
        BY <1>1, <1>3, <1>4, <1>6, <2>3, <3>2, <4>2, RefusalParts DEF Frame, FailSent
    <3>3. QED
      BY <3>1, <3>2
  <2>4. CASE (ClientFormatList \/ PollAdvertises) /\ toClient' # toClient
    <3>1. PICK msg \in Message : msg.type # "fail" /\ toClient' = Append(toClient, msg)
      <4>1. List(poll.item) \in Message
        BY ListIsMessage DEF Types, PollType
      <4>2. QED
        BY <2>4, <4>1, ToClientAfter, RequestIsMessage, MessageTypes
    <3>2. FailFirst(toClient)
      BY <1>1, <2>1, <3>1, FailFirstOfAppend
    <3>3. QED
      BY <1>1, <1>3, <1>4, <1>6, <3>2, RefusalParts DEF Frame
  <2>5. CASE toClient' = toClient
    BY <1>1, <1>3, <1>4, <1>6, <2>1, <2>5, RefusalParts DEF Frame
  <2>6. CASE ClientGetsAnswer
    BY <1>5, <2>6
  <2>7. QED
    BY <1>1, <1>3, <2>2, <2>3, <2>4, <2>5, <2>6 DEF Frame, ClientReads
<1>7. CASE pasted' = pasted /\ pasted = "refused"
  BY <1>1, <1>3, <1>4, <1>7, RefusalParts DEF Frame
<1>8. QED
  BY <1>1, <1>2, <1>3, <1>4, <1>5, <1>6, <1>7 DEF Frame

(* The copy X is not what the peer holds, nor what the poll is about to    *)
(* swap in; if it is on the pasteboard, it has been noted and no poll will *)
(* read it; and the client has sent no text of its own.                    *)
StaysOut(x) ==
  /\ held # x
  /\ PollHasItem => poll.item # x
  /\ board.item = x =>
       /\ board.count = lastChangeCount /\ poll.at # "read"
       /\ poll.at = "compare" => poll.count = lastChangeCount

NoReceipt == LoopIdle /\ Of(toServer, {"data"}) = {}

LEMMA StaysOutParts ==
  /\ RefusalInv <=> (Refusal => StaysOut(clientBoard.item) /\ NoReceipt)
  /\ (clientBoard' = clientBoard)
       => (RefusalInv' <=> (Refusal' => StaysOut(clientBoard.item)' /\ NoReceipt'))
BY DEF RefusalInv, StaysOut, NoReceipt

(* No text comes from a client that holds none of its own.                 *)
LEMMA NoReceiptStep ==
  ASSUME Types, [Next]_vars, NoReceipt, ~ClientOwns, ~ClientCopies, ~ClientPastes
  PROVE  NoReceipt' /\ ~ClientFormatData /\ ~SetString /\ ~NoteCount
<1>1. /\ toServer \in Seq(Message) /\ Frame
      /\ LoopIdle /\ Of(toServer, {"data"}) = {}
  BY FrameHolds DEF Types, WireType, NoReceipt
<1>2. ~SetString /\ ~NoteCount
  BY <1>1 DEF SetString, NoteCount, LoopIdle
<1>3. ~ClientFormatData
  <2> SUFFICES ASSUME ClientFormatData PROVE FALSE
    OBVIOUS
  <2>1. toServer # <<>> /\ Head(toServer).type = "data"
    BY DEF ClientFormatData, FromClient
  <2>2. QED
    BY <1>1, <2>1, OfTail
<1>4. Of(toServer', {"data"}) = {}
  <2>1. CASE ClientGetsRequest
    <3>1. toServer' = Append(toServer, Fail)
      BY <2>1, ToServerAfter
    <3>2. QED
      BY <1>1, <3>1, OfAppend, FailIsMessage, MessageTypes
  <2>2. CASE PeerReads
    <3>1. toServer # <<>> /\ toServer' = Tail(toServer)
      BY <2>2, ToServerAfter
    <3>2. ASSUME NEW i \in Of(Tail(toServer), {"data"}) PROVE FALSE
      BY <1>1, <3>1, OfTail
    <3>3. QED
      BY <3>1, <3>2
  <2>3. CASE toServer' = toServer
    BY <1>1, <2>3
  <2>4. QED
    BY <1>1, <2>1, <2>2, <2>3 DEF Frame
<1>5. loop' = loop
  BY <1>1, <1>2, <1>3 DEF Frame
<1>6. QED
  BY <1>1, <1>2, <1>3, <1>4, <1>5 DEF NoReceipt, LoopIdle

(* What was swapped out stays out, ...                                     *)
LEMMA StaysOutStep ==
  ASSUME Types, OriginInv, FreshInv, [Next]_vars, NEW x \in Copies, StaysOut(x), Sendable(x),
         ~ClientFormatData, ~SetString, ~NoteCount
  PROVE  StaysOut(x)'
<1>1. Frame /\ PollType
  BY FrameHolds DEF Types
<1>2. held' # x
  BY <1>1 DEF Frame, StaysOut, PollSwaps, Polling, PollHasItem
<1>3. ASSUME PollHasItem' PROVE poll'.item # x
  <2>1. CASE PollReadsItem /\ poll'.item = board.item
    BY <2>1 DEF PollReadsItem, Polling, StaysOut
  <2>2. CASE PollHasItem /\ poll'.item = poll.item
    BY <2>2 DEF StaysOut
  <2>3. QED
    BY <1>3, <2>1, <2>2, PollItemAfter
<1>4. ASSUME board'.item = x
      PROVE  /\ board'.count = lastChangeCount' /\ poll'.at # "read"
             /\ poll'.at = "compare" => poll'.count = lastChangeCount'
  <2>1. x # Nothing
    BY DEF Sendable, Nothing
  <2>2. board' = board
    <3>1. CASE x.by = "mac"
      BY <1>4, <3>1, MacCopyStaysOff
    <3>2. CASE x.by # "mac"
      BY <1>4, <2>1, <3>2, BoardItemAfter
    <3>3. QED
      BY <3>1, <3>2
  <2>3. /\ board.count = lastChangeCount /\ poll.at # "read"
        /\ poll.at = "compare" => poll.count = lastChangeCount
    BY <1>4, <2>2 DEF StaysOut
  <2>4. CASE StartSync
    BY <1>1, <2>2, <2>4, PollAfter DEF StartSync
  <2>5. CASE PollReadsCount
    BY <1>1, <2>2, <2>3, <2>5, PollAfter DEF PollReadsCount
  <2>6. CASE PollCompares
    <3>1. poll'.at = "idle" /\ UNCHANGED lastChangeCount
      BY <1>1, <2>3, <2>6, PollAfter DEF PollCompares, Polling
    <3>2. QED
      BY <2>2, <2>3, <3>1
  <2>7. CASE PollReadsItem
    BY <2>3, <2>7 DEF PollReadsItem, Polling
  <2>8. CASE PollSwaps \/ PollDefers \/ PollAdvertises
    <3>1. poll'.at \in {"idle", "advertise"} /\ UNCHANGED lastChangeCount
      BY <1>1, <2>8, PollAfter DEF PollSwaps, PollDefers, PollAdvertises
    <3>2. QED
      BY <2>2, <2>3, <3>1
  <2>9. CASE UNCHANGED <<poll, lastChangeCount>>
    BY <2>2, <2>3, <2>9
  <2>10. QED
    BY <1>1, <2>4, <2>5, <2>6, <2>7, <2>8, <2>9 DEF Frame, PollStep
<1>5. QED
  BY <1>2, <1>3, <1>4 DEF StaysOut

(* ... and what the peer has not got when it is asked for is out.          *)
LEMMA FailedIsOut ==
  ASSUME Types, Offer, OriginInv, OnePasteInv, SupersededInv, FailSent
  PROVE  StaysOut(clientBoard.item) /\ NoReceipt
<1> DEFINE x == clientBoard.item
<1>1. /\ LoopIdle /\ toServer # <<>> /\ Head(toServer).type = "request"
      /\ pasted = "asked" /\ Lists(toClient) = {}
      /\ held = Nothing \/ Format(held) # Head(toServer).format
  BY DEF FailSent, ClientFormatDataRequest, FromClient
<1>2. ~ClientOwns /\ AskAfterData(toServer, Format(x))
  BY <1>1, OnePasteParts
<1>3. toServer \in Seq(Message) /\ x \in Item /\ x \in Offers
  BY DEF Types, WireType, ClientType, Offers
<1>4. 1 \in Of(toServer, {"request"}) /\ Head(toServer) = toServer[1]
  BY <1>1, <1>3, OfTail
<1>5. Head(toServer).format = Format(x) /\ \A j \in Of(toServer, {"data"}) : j < 1
  BY <1>2, <1>4 DEF AskAfterData
<1>6. Of(toServer, {"data"}) = {}
  <2> SUFFICES ASSUME NEW j \in Of(toServer, {"data"}) PROVE FALSE
    OBVIOUS
  <2>1. j \in Nat /\ j >= 1 /\ j < 1
    BY <1>3, <1>5, OfIsNat
  <2>2. QED
    BY <2>1
<1>7. Sendable(x) /\ x # Nothing /\ x.by # "nobody"
  BY <1>2 DEF OriginInv, Copies, Offers, Sendable, Nothing
<1>8. held # x
  BY <1>1, <1>5, <1>7
<1>9. poll.at = "advertise" /\ poll.item = held
  BY <1>1, <1>2, <1>8 DEF Offer, OfferIsHeld, Settled
<1>10. board.item = x => board.count = lastChangeCount
  <2>1. CASE x.by = "mac"
    BY <1>3, <1>8, <2>1, SupersededParts DEF OffersAreGone
  <2>2. CASE x.by = "client"
    BY <1>1, <1>8, <1>9, <2>2, SupersededParts DEF ReceivedIsNoted, PollHasItem
  <2>3. QED
    BY <1>3, <1>7, <2>1, <2>2 DEF Item
<1>11. QED
  BY <1>1, <1>6, <1>8, <1>9, <1>10 DEF StaysOut, NoReceipt

LEMMA RefusalStep ==
  ASSUME Types, Offer, PasteInv, [Next]_vars
  PROVE  RefusalInv'
<1> SUFFICES ASSUME Refusal' PROVE RefusalInv'
  BY DEF RefusalInv
<1>1. OriginInv /\ FreshInv /\ OnePasteInv /\ SupersededInv /\ RefusalInv
  BY DEF PasteInv
<1>2. /\ clientBoard' = clientBoard /\ ~ClientCopies /\ ~ClientPastes
      /\ Refusal \/ FailSent
  BY <1>1, RefusalAfter
<1>3. StaysOut(clientBoard.item) /\ NoReceipt
  BY <1>1, <1>2, StaysOutParts, FailedIsOut
<1>4. ~ClientOwns
  BY <1>1, <1>2, OnePasteParts, RefusalParts DEF FailSent
<1>5. Sendable(clientBoard.item) /\ clientBoard.item \in Copies
  BY <1>1, <1>4 DEF OriginInv, Copies, Offers
<1>6. NoReceipt' /\ ~ClientFormatData /\ ~SetString /\ ~NoteCount
  BY <1>2, <1>3, <1>4, NoReceiptStep
<1>7. StaysOut(clientBoard.item)'
  <2>1. PICK x : x = clientBoard.item
    OBVIOUS
  <2>2. StaysOut(x) /\ Sendable(x) /\ x \in Copies
    BY <1>3, <1>5, <2>1
  <2>3. StaysOut(x)'
    BY <1>1, <1>6, <2>2, StaysOutStep
  <2>4. QED
    BY <1>2, <2>1, <2>3 DEF StaysOut
<1>8. QED
  BY <1>2, <1>6, <1>7, StaysOutParts

-----------------------------------------------------------------------------
LEMMA PasteStep == Types /\ Offer /\ PasteInv /\ [Next]_vars => PasteInv'
BY OriginStep, FreshStep, OnePasteStep, SupersededStep, RefusalStep DEF PasteInv

LEMMA InitFollow == Init => FollowInv
<1> SUFFICES ASSUME Init PROVE FollowInv
  OBVIOUS
<1>1. /\ board.item = Nothing /\ board.owner = "app" /\ clientBoard.item = Nothing
      /\ clientBoard.whose = "own" /\ pasted = "nothing" /\ poll.at = "off"
      /\ poll.item = Nothing /\ loop = IdleLoop /\ loop.at = "idle" /\ held = Nothing
      /\ toClient = <<>> /\ Len(toServer) = 1 /\ toServer[1].type = "caps"
  BY DEF Init, IdlePoll, IdleLoop
<1>2. /\ \A types : Of(toClient, types) = {}
      /\ \A types : "caps" \notin types => Of(toServer, types) = {}
      /\ Lists(toClient) = {}
  BY <1>1 DEF Of, Lists
<1>3. /\ Of(toServer, {"list"}) = {} /\ Of(toServer, {"data"}) = {}
      /\ Of(toServer, {"request"}) = {}
  BY <1>2
<1>4. Nothing.by = "nobody" /\ Nothing.kind = "other"
  BY DEF Nothing
<1>5. Copies = {Nothing}
  BY <1>1, <1>2 DEF Copies, Offers
<1>6. OriginInv /\ FreshInv
  BY <1>1, <1>2, <1>3, <1>4, <1>5
     DEF OriginInv, FreshInv, Fresh, PollHasItem, ClientOwns, LoopIdle
<1>7. OnePasteInv
  BY <1>1, <1>2, <1>3 DEF OnePasteInv
<1>8. SupersededInv
  BY <1>1, <1>2, <1>4 DEF SupersededInv, Offers
<1>9. RefusalInv
  BY <1>1 DEF RefusalInv, Refusal
<1>10. TextInv
  <2>1. Wanted(Nothing) = "no text"
    BY <1>4 DEF Wanted
  <2>2. QED
    BY <1>1, <1>2, <1>3, <1>4, <2>1 DEF TextInv, LatestIs
<1>11. QED
  BY InitOffer, <1>6, <1>7, <1>8, <1>9, <1>10 DEF FollowInv, PasteInv

(* The last answer in a queue of answers.                                  *)
LEMMA LatestExists ==
  ASSUME NEW queue \in Seq(Message), NEW types, Of(queue, types) # {}
  PROVE  \E i \in Of(queue, types) : \A j \in Of(queue, types) : j <= i
<1> DEFINE Left == {Len(queue) - i : i \in Of(queue, types)}
           Less == OpToRel(<, Nat)
<1>1. Len(queue) \in Nat /\ \A i \in Of(queue, types) : i \in Nat /\ i <= Len(queue)
  BY OfIsNat
<1>2. \A i \in Of(queue, types) : Len(queue) - i \in Nat
  BY <1>1
<1>3. Left \subseteq Nat /\ Left # {}
  BY <1>2
<1>4. \A x, y \in Nat : y < x => <<y, x>> \in Less
  BY DEF OpToRel
<1>5. IsWellFoundedOn(Less, Nat)
  BY NatLessThanWellFounded
<1> HIDE DEF Less
<1>6. \E x \in Left : \A y \in Left : ~(<<y, x>> \in Less)
  <2> HIDE DEF Left
  <2>1. QED
    BY <1>3, <1>5, WFMin
<1>7. PICK i \in Of(queue, types) :
        \A y \in Left : ~(<<y, Len(queue) - i>> \in Less)
  BY <1>6
<1>8. ASSUME NEW j \in Of(queue, types) PROVE j <= i
  <2>1. ~(<<Len(queue) - j, Len(queue) - i>> \in Less)
    BY <1>7
  <2>2. ~(Len(queue) - j < Len(queue) - i)
    BY <1>2, <1>4, <2>1
  <2>3. QED
    BY <1>1, <2>2
<1>9. QED
  BY <1>8

(* What the client and the Mac hold of each other's copies, what is on its *)
(* way between them, and what the poll and the receipt have in hand agree, *)
(* however many copies are made and however the threads and the messages   *)
(* interleave.                                                             *)
THEOREM FollowHolds == Spec => []FollowInv
<1>1. FollowInv /\ [Next]_vars => FollowInv'
  <2> SUFFICES ASSUME FollowInv, [Next]_vars PROVE FollowInv'
    OBVIOUS
  <2>1. Types /\ Offer /\ Echo /\ PasteInv /\ TextInv
    BY InvParts DEF FollowInv
  <2>2. OfferInv'
    BY <2>1, InvParts, TypeStep, OfferStep, EchoStep
  <2>3. PasteInv' /\ TextInv'
    BY <2>1, PasteStep, TextStep
  <2>4. QED
    BY <2>2, <2>3 DEF FollowInv
<1>2. QED
  BY InitFollow, <1>1, PTL DEF Spec

(* A paste is refused only if the Mac has copied something else since:     *)
(* what the peer holds is never what the client was refused.               *)
THEOREM NoPasteRefusedForNothing == Spec => []RefusedForNewer
<1>1. FollowInv => RefusedForNewer
  BY DEF FollowInv, PasteInv, RefusalInv, Refusal, RefusedForNewer
<1>2. QED
  BY <1>1, FollowHolds, PTL

(* Text that was decoded in the wrong format, because the client copied    *)
(* something else meanwhile, is about to be replaced by what it copied.    *)
THEOREM GarbledTextReplaced == Spec => []GarbledIsReplaced
<1>1. FollowInv => GarbledIsReplaced
  <2> SUFFICES ASSUME FollowInv, board.item.kind = "garbled", OwnText,
                      Of(toClient, {"request"}) = {}
               PROVE  Of(toServer, {"list", "data"}) # {}
    BY DEF GarbledIsReplaced, OwnText
  <2>1. TextIsComing /\ toServer \in Seq(Message)
    BY InvParts, TextParts DEF FollowInv, Types, WireType
  <2>2. CASE Listed
    BY <2>2 DEF Listed, Of
  <2>3. CASE Sent
    <3>1. PICK i \in Of(toServer, Answer) : \A j \in Of(toServer, Answer) : j <= i
      BY <2>1, <2>3, LatestExists DEF Sent
    <3>2. toServer[i] = Data(clientBoard.item, clipReqFormat)
      BY <2>3, <3>1 DEF Sent, LatestIs
    <3>3. i \in Of(toServer, {"list", "data"})
      BY <3>2, MessageTypes DEF Of
    <3>4. QED
      BY <3>3
  <2>4. QED
    BY <2>1, <2>2, <2>3, ComingParts DEF Requested, Arrived, Clean
<1>2. QED
  BY <1>1, FollowHolds, PTL

=============================================================================
