----------------------------- MODULE Clipboard -----------------------------
(***************************************************************************)
(* The clipboard channel of one session: the pasteboard poll and the       *)
(* receipt of the client's text (input/ClipboardSync.m), the CLIPRDR       *)
(* handlers of the peer loop and the poll thread's advertisement           *)
(* (protocol/RDPPeer.c).                                                   *)
(*                                                                         *)
(* Three parties meet on the Mac's pasteboard, which has no lock: Mac      *)
(* applications, the poll timer's thread, and the peer's loop thread, that *)
(* receives what the client copied.  xportLock covers the loop thread's    *)
(* handlers and two separate sections of the poll thread.                  *)
(*                                                                         *)
(* A copy is a record: who made it, which of his it is, and what it can be *)
(* had as.  A message carries the copy it was sent for; the code sees only *)
(* its format.                                                             *)
(***************************************************************************)
EXTENDS Naturals, Sequences, FiniteSets

CONSTANTS MaxMacCopies, MaxClientCopies,   (* copies made on either side,  *)
          MaxCopies                        (* and on both together         *)

ASSUME MaxCopiesAssumption ==
  MaxMacCopies \in Nat /\ MaxClientCopies \in Nat /\ MaxCopies \in Nat

VARIABLES
  board,             (* the pasteboard: its last owner, changeCount, item  *)
  macCopies, clientCopies,
  clientBoard,       (* the client's: an item, its own or offered to it     *)
  pasted,            (* the paste the client is waiting for, or was refused *)
  lastChangeCount,   (* ClipboardSync's                                    *)
  poll,              (* the poll's thread, "off" before start: what it has *)
                     (* read                                               *)
  loop,              (* receiveFromClient: where it is, what it decoded    *)
  clipReady, clipReqFormat,
  held,              (* clipData and clipFormat                            *)
  toServer, toClient,
  raced              (* the client's items whose receipt met a poll        *)

macVars    == <<board, macCopies>>
clientVars == <<clientBoard, clientCopies, pasted>>
peerVars   == <<clipReady, clipReqFormat, held>>
vars       == <<macVars, clientVars, lastChangeCount, poll, loop, peerVars,
                toServer, toClient, raced>>

-----------------------------------------------------------------------------
(* "text" can be had as CF_UNICODETEXT and as CF_TEXT, "ansi" as CF_TEXT;  *)
(* "garbled" is text decoded in the wrong format, "other" neither text nor *)
(* PNG.                                                                    *)
Item == [by : {"mac", "client", "nobody"}, n : Nat,
         kind : {"text", "ansi", "png", "other", "garbled"}]

Nothing == [by |-> "nobody", n |-> 0, kind |-> "other"]

(* What pollPasteboard sends: a string, or else a PNG.                     *)
Format(item) == IF item.kind = "png" THEN "png" ELSE "unicode"

Sendable(item) == item.kind # "other"

(* What the client can be asked for: CF_UNICODETEXT before CF_TEXT.        *)
Wanted(item) ==
  CASE item.kind = "text" -> "unicode"
    [] item.kind = "ansi" -> "ansi"
    [] OTHER              -> "no text"

CanGive(item, format) == item.kind = "text" \/ Wanted(item) = format

Message ==
  [type : {"caps"}]
    \cup [type : {"list"}, item : Item]
    \cup [type : {"request"}, format : {"unicode", "ansi", "png"}]
    \cup [type : {"data"}, item : Item, format : {"unicode", "ansi", "png"}]
    \cup [type : {"fail"}]

List(item)            == [type |-> "list", item |-> item]
Request(format)       == [type |-> "request", format |-> format]
Data(item, format)    == [type |-> "data", item |-> item, format |-> format]
Fail                  == [type |-> "fail"]

ClientOwns == clientBoard.whose = "own"

ClipTypeOK ==
  /\ board \in [owner : {"app", "us"}, count : Nat, item : Item]
  /\ macCopies \in Nat /\ clientCopies \in Nat
  /\ clientBoard \in [item : Item, whose : {"own", "offered"}]
  /\ pasted \in {"nothing", "asked", "stale", "refused"}
  /\ lastChangeCount \in Nat
  /\ poll \in [at : {"off", "idle", "compare", "read", "swap", "advertise"},
               count : Nat, item : Item]
  /\ loop \in [at : {"idle", "set", "note"}, item : Item]
  /\ clipReady \in BOOLEAN /\ clipReqFormat \in {"unset", "unicode", "ansi"}
  /\ held \in Item
  /\ toServer \in Seq(Message) /\ toClient \in Seq(Message)
  /\ raced \in SUBSET Item

IdlePoll == [at |-> "idle", count |-> 0, item |-> Nothing]
IdleLoop == [at |-> "idle", item |-> Nothing]

Init ==
  /\ board = [owner |-> "app", count |-> 0, item |-> Nothing]
  /\ macCopies = 0 /\ clientCopies = 0
  /\ clientBoard = [item |-> Nothing, whose |-> "own"] /\ pasted = "nothing"
  /\ lastChangeCount = 0
  /\ poll = [IdlePoll EXCEPT !.at = "off"] /\ loop = IdleLoop
  /\ clipReady = FALSE /\ clipReqFormat = "unset" /\ held = Nothing
  /\ toServer = <<[type |-> "caps"]>> /\ toClient = <<>>
  /\ raced = {}

-----------------------------------------------------------------------------
(* Mac applications.                                                       *)

Cleared(owner) == [owner |-> owner, count |-> board.count + 1, item |-> Nothing]

(* Somebody copies on the Mac: clearContents moves the count, ...          *)
AppClears ==
  /\ macCopies < MaxMacCopies /\ macCopies + clientCopies < MaxCopies
  /\ macCopies' = macCopies + 1
  /\ board' = Cleared("app")
  /\ UNCHANGED <<clientVars, lastChangeCount, poll, loop, peerVars, toServer, toClient,
                 raced>>

(* ... the data follows and does not, and is refused to a past owner.      *)
AppWrites ==
  /\ board.owner = "app" /\ board.item = Nothing /\ macCopies > 0
  /\ \E kind \in {"text", "png", "other"} :
       board' = [board EXCEPT !.item = [by |-> "mac", n |-> macCopies, kind |-> kind]]
  /\ UNCHANGED <<macCopies, clientVars, lastChangeCount, poll, loop, peerVars, toServer,
                 toClient, raced>>

-----------------------------------------------------------------------------
(* The client.                                                             *)

(* The user copies there: the client lists what it holds.                  *)
ClientCopies ==
  /\ clientCopies < MaxClientCopies /\ macCopies + clientCopies < MaxCopies
  /\ clientCopies' = clientCopies + 1
  /\ \E kind \in {"text", "ansi", "other"} :
       LET item == [by |-> "client", n |-> clientCopies + 1, kind |-> kind]
       IN  /\ clientBoard' = [item |-> item, whose |-> "own"]
           /\ toServer' = Append(toServer, List(item))
  /\ pasted' = IF pasted \in {"asked", "stale"} THEN "stale" ELSE "nothing"
  /\ UNCHANGED <<macVars, lastChangeCount, poll, loop, peerVars, toClient, raced>>

(* The user pastes what the Mac offered.                                   *)
ClientPastes ==
  /\ ~ClientOwns /\ pasted = "nothing"
  /\ pasted' = "asked"
  /\ toServer' = Append(toServer, Request(Format(clientBoard.item)))
  /\ UNCHANGED <<macVars, clientBoard, clientCopies, lastChangeCount, poll, loop, peerVars,
                 toClient, raced>>

FromServer(type) ==
  /\ toClient # <<>> /\ Head(toClient).type = type
  /\ toClient' = Tail(toClient)
  /\ UNCHANGED <<macVars, clientCopies, lastChangeCount, poll, loop, peerVars, raced>>

(* What the Mac offers takes the place of the client's own.                *)
ClientGetsList ==
  /\ FromServer("list")
  /\ clientBoard' = [item |-> Head(toClient).item, whose |-> "offered"]
  /\ pasted' = IF pasted \in {"asked", "stale"} THEN "stale" ELSE "nothing"
  /\ UNCHANGED toServer

(* It answers with what it holds now.                                      *)
ClientGetsRequest ==
  /\ FromServer("request")
  /\ LET format == Head(toClient).format
         gives  == ClientOwns /\ CanGive(clientBoard.item, format)
     IN  toServer' = Append(toServer, IF gives THEN Data(clientBoard.item, format) ELSE Fail)
  /\ UNCHANGED <<clientBoard, pasted>>

ClientGetsAnswer ==
  /\ \/ FromServer("data") /\ pasted' = "nothing"
     \/ FromServer("fail") /\ pasted' = IF pasted = "asked" THEN "refused" ELSE "nothing"
  /\ UNCHANGED <<clientBoard, toServer>>

-----------------------------------------------------------------------------
(* The peer's loop thread reads one PDU at a time, under xportLock.        *)

LoopIdle == loop.at = "idle"

FromClient(type) ==
  /\ LoopIdle
  /\ toServer # <<>> /\ Head(toServer).type = type
  /\ toServer' = Tail(toServer)
  /\ UNCHANGED <<macCopies, clientVars, lastChangeCount, poll>>

(* cliprdr_client_capabilities                                             *)
ClientCapabilities ==
  /\ FromClient("caps")
  /\ clipReady' = TRUE
  /\ UNCHANGED <<board, loop, clipReqFormat, held, toClient, raced>>

(* Faulty: the format asked for first is kept.                             *)
ClientFormatListKeepsFormat ==
  /\ FromClient("list")
  /\ clipReady' = TRUE
  /\ LET want == Wanted(Head(toServer).item)
     IN  \/ want = "no text" /\ UNCHANGED <<clipReqFormat, toClient>>
         \/ /\ want # "no text"
            /\ clipReqFormat' = IF clipReqFormat = "unset" THEN want ELSE clipReqFormat
            /\ toClient' = Append(toClient, Request(want))
  /\ UNCHANGED <<board, loop, held, raced>>

(* cliprdr_client_format_list: acknowledged (nobody waits for that), and   *)
(* asked for, if there is text in it.                                      *)
ClientFormatList ==
  /\ FromClient("list")
  /\ clipReady' = TRUE
  /\ LET want == Wanted(Head(toServer).item)
     IN  \/ want = "no text" /\ UNCHANGED <<clipReqFormat, toClient>>
         \/ /\ want # "no text"
            /\ clipReqFormat' = want
            /\ toClient' = Append(toClient, Request(want))
  /\ UNCHANGED <<board, loop, held, raced>>

(* Text read in another format than it was sent in: wrong, or no text.     *)
Garble(item) == [item EXCEPT !.kind = "garbled"]

(* clipReqFormat is that of the latest request, not of the one answered.   *)
Decoded(data) ==
  IF data.format = clipReqFormat THEN {data.item} ELSE {Garble(data.item), Nothing}

(* The client's item is being received while a poll is at it.              *)
PollAtIt == poll.at \in {"compare", "read"}

(* cliprdr_client_format_data: receiveFromClient clears the pasteboard,    *)
(* whether or not the text decodes.                                        *)
ClientFormatData ==
  /\ FromClient("data")
  /\ IF poll.at = "off" THEN UNCHANGED <<board, loop, raced>>
     ELSE \E item \in Decoded(Head(toServer)) :
            /\ board' = Cleared("us")
            /\ loop' = IF item = Nothing THEN IdleLoop ELSE [at |-> "set", item |-> item]
            /\ raced' = IF item # Nothing /\ PollAtIt THEN raced \cup {item} ELSE raced
  /\ UNCHANGED <<peerVars, toClient>>

ClientFormatDataFails ==
  /\ FromClient("fail")
  /\ UNCHANGED <<board, loop, peerVars, toClient, raced>>

(* setString, whose refusal (an application has cleared the pasteboard     *)
(* since) nobody looks at.                                                 *)
SetString ==
  /\ loop.at = "set"
  /\ board' = IF board.owner = "us" THEN [board EXCEPT !.item = loop.item] ELSE board
  /\ loop' = [loop EXCEPT !.at = "note"]
  /\ UNCHANGED <<macCopies, clientVars, lastChangeCount, poll, peerVars, toServer, toClient,
                 raced>>

(* _lastChangeCount = pb.changeCount                                       *)
NoteCount ==
  /\ loop.at = "note"
  /\ lastChangeCount' = board.count
  /\ loop' = IdleLoop
  /\ UNCHANGED <<macVars, clientVars, poll, peerVars, toServer, toClient, raced>>

(* Faulty: what the peer asked for last is taken for what it is asked for. *)
ClientFormatDataRequestMixed ==
  /\ FromClient("request")
  /\ LET format == Head(toServer).format
         has    == held # Nothing /\ Format(held) = clipReqFormat
     IN  toClient' = Append(toClient, IF has THEN Data(held, format) ELSE Fail)
  /\ UNCHANGED <<board, loop, peerVars, raced>>

(* cliprdr_client_format_data_request                                      *)
ClientFormatDataRequest ==
  /\ FromClient("request")
  /\ LET format == Head(toServer).format
         has    == held # Nothing /\ Format(held) = format
     IN  toClient' = Append(toClient, IF has THEN Data(held, format) ELSE Fail)
  /\ UNCHANGED <<board, loop, peerVars, raced>>

-----------------------------------------------------------------------------
(* ClipboardSync's poll.                                                   *)

(* start                                                                   *)
StartSync ==
  /\ poll.at = "off"
  /\ lastChangeCount' = board.count
  /\ poll' = IdlePoll
  /\ UNCHANGED <<macVars, clientVars, loop, peerVars, toServer, toClient, raced>>

Polling(from) ==
  /\ poll.at = from
  /\ UNCHANGED <<macVars, clientVars, loop, clipReady, clipReqFormat, toServer>>

(* NSInteger cc = pb.changeCount                                           *)
PollReadsCount ==
  /\ Polling("idle")
  /\ poll' = [IdlePoll EXCEPT !.at = "compare", !.count = board.count]
  /\ raced' = IF LoopIdle THEN raced ELSE raced \cup {loop.item}
  /\ UNCHANGED <<lastChangeCount, held, toClient>>

PollCompares ==
  /\ Polling("compare")
  /\ \/ poll.count = lastChangeCount /\ poll' = IdlePoll /\ UNCHANGED lastChangeCount
     \/ /\ poll.count # lastChangeCount
        /\ lastChangeCount' = poll.count
        /\ poll' = [IdlePoll EXCEPT !.at = "read"]
  /\ UNCHANGED <<held, toClient, raced>>

(* An item that rdp_peer_send_clipboard has no memory for is not sent; for *)
(* the properties, the idle poll keeps it in mind.                         *)
Skipped(item) == [IdlePoll EXCEPT !.item = item]

Found ==
  IF Sendable(board.item)
  THEN {[poll EXCEPT !.at = "swap", !.item = board.item], Skipped(board.item)}
  ELSE {IdlePoll}

(* stringForType, or else dataForType of a PNG; neither: nothing to send.  *)
PollReadsItem ==
  /\ Polling("read")
  /\ poll' \in Found
  /\ UNCHANGED <<lastChangeCount, held, toClient, raced>>

(* Faulty: the count is noted once the item is sent.                       *)
PollNotesLate ==
  /\ Polling("swap") /\ LoopIdle
  /\ held' = poll.item
  /\ poll' = [poll EXCEPT !.at = "advertise"]
  /\ lastChangeCount' = board.count
  /\ UNCHANGED <<toClient, raced>>

(* rdp_peer_send_clipboard, its first locked section.                      *)
PollSwaps ==
  /\ Polling("swap") /\ LoopIdle
  /\ held' = poll.item
  /\ poll' = [poll EXCEPT !.at = "advertise"]
  /\ UNCHANGED <<lastChangeCount, toClient, raced>>

(* Channel not ready: nothing will ever advertise this copy.               *)
PollDefers ==
  /\ Polling("advertise") /\ ~clipReady
  /\ poll' = IdlePoll
  /\ UNCHANGED <<lastChangeCount, held, toClient, raced>>

(* Faulty: the format list does not wait for the channel.                  *)
PollAdvertisesEarly ==
  /\ Polling("advertise") /\ LoopIdle
  /\ toClient' = Append(toClient, List(poll.item))
  /\ poll' = IdlePoll
  /\ UNCHANGED <<lastChangeCount, held, raced>>

(* clipReady never falls again, so the lock may come after the test; the   *)
(* second locked section.                                                  *)
PollAdvertises ==
  /\ Polling("advertise") /\ clipReady /\ LoopIdle
  /\ toClient' = Append(toClient, List(poll.item))
  /\ poll' = IdlePoll
  /\ UNCHANGED <<lastChangeCount, held, raced>>

-----------------------------------------------------------------------------
MacStep    == AppClears \/ AppWrites
ClientStep == ClientCopies \/ ClientPastes
ClientReads == ClientGetsList \/ ClientGetsRequest \/ ClientGetsAnswer
LoopStep   == \/ ClientCapabilities \/ ClientFormatList \/ ClientFormatData
              \/ ClientFormatDataFails \/ ClientFormatDataRequest
              \/ SetString \/ NoteCount
PollStep   == PollReadsCount \/ PollCompares \/ PollReadsItem \/ PollSwaps
              \/ PollDefers \/ PollAdvertises

Next == MacStep \/ ClientStep \/ ClientReads \/ LoopStep \/ StartSync \/ PollStep

Spec == Init /\ [][Next]_vars

(* The timer polls, the loop and the client read on; the poll thread gets  *)
(* the lock some time, between two PDUs.                                   *)
Fairness ==
  /\ WF_vars(PollStep) /\ WF_vars(LoopStep) /\ WF_vars(ClientReads)
  /\ SF_vars(PollSwaps) /\ SF_vars(PollAdvertises)

FairSpec == Spec /\ Fairness

-----------------------------------------------------------------------------
Lists(queue) == {i \in 1 .. Len(queue) : queue[i].type = "list"}

Of(queue, types) == {i \in 1 .. Len(queue) : queue[i].type \in types}

(* The latest of these messages, if there is one, is this one.             *)
LatestIs(queue, types, msg) ==
  \A i \in Of(queue, types) : (\A j \in Of(queue, types) : j <= i) => queue[i] = msg

Answer == {"data", "fail"}

(* Before the client has engaged the channel it is sent no format list:    *)
(* FreeRDP would abort the daemon.                                         *)
NoListBeforeReady == ~clipReady => ClientOwns /\ Lists(toClient) = {}

(* The last list the client has got, or is to get, is of what the peer     *)
(* holds, or the list of that is about to follow.                          *)
OfferIsHeld ==
  \/ poll.at = "advertise" /\ clipReady
  \/ /\ \A i \in Lists(toClient) :
          (\A j \in Lists(toClient) : j <= i) => toClient[i].item = held
     /\ Lists(toClient) = {} => ClientOwns \/ clientBoard.item = held

(* A paste is refused only if the Mac has copied something else since.     *)
RefusedForNewer == pasted = "refused" => clientBoard.item # held

(* What the client copied does not bounce back to it, unless a poll was    *)
(* looking while it was received.                                          *)
NoBounce == held.by = "client" => held \in raced

(* Text that was decoded in the wrong format is about to be replaced, as   *)
(* long as the client still has text of its own: its list, the request for *)
(* it or the text itself is still on its way.                              *)
GarbledIsReplaced ==
  /\ board.item.kind = "garbled"
  /\ ClientOwns /\ Wanted(clientBoard.item) # "no text"
  => Of(toServer, {"list", "data"}) # {} \/ Of(toClient, {"request"}) # {}

(* What NoBounce rests on: a client's item that no poll has met is noted,  *)
(* or about to be, and no poll is past its test.                           *)
EchoInv ==
  /\ loop.at # "idle" /\ PollAtIt => loop.item \in raced
  /\ board.item.by = "client" => board.owner = "us" /\ loop.at # "set"
  /\ board.item.by = "client" /\ board.item \notin raced
     => /\ poll.at # "read"
        /\ poll.at = "compare" => poll.count = lastChangeCount
        /\ \/ loop.at = "note" /\ loop.item = board.item
           \/ board.count = lastChangeCount
  /\ poll.at \in {"swap", "advertise"} /\ poll.item.by = "client" => poll.item \in raced

(* The peer, the poll and what either clipboard holds agree: the client is *)
(* offered what the peer has, once the channel is ready, and what it       *)
(* copied is not sent back to it.                                          *)
OfferInv ==
  /\ ClipTypeOK
  /\ NoListBeforeReady
  /\ OfferIsHeld /\ (poll.at = "advertise" => poll.item = held)
  /\ EchoInv /\ NoBounce

(* What RefusedForNewer rests on.  Who made what is where: ...             *)
PollHasItem == poll.at \in {"swap", "advertise"}

Offers == {clientBoard.item} \cup {toClient[i].item : i \in Lists(toClient)}

Copies == Offers \cup {board.item, held, poll.item}

OriginInv ==
  /\ \A item \in Copies : item.by = "nobody" => item = Nothing
  /\ PollHasItem => Sendable(poll.item)
  /\ \A i \in Lists(toClient) : Sendable(toClient[i].item)
  /\ IF ClientOwns THEN clientBoard.item.by # "mac" ELSE Sendable(clientBoard.item)
  /\ \A i \in Of(toServer, {"data"}) : toServer[i].item.by = "client"
  /\ ~LoopIdle => loop.item.by = "client"

(* ... the copy an application is about to write is nowhere yet, ...       *)
Fresh(item) ==
  item.by = "mac" =>
    item.n <= macCopies
      /\ (board.owner = "app" /\ board.item = Nothing => item.n < macCopies)

FreshInv == \A item \in Copies : Fresh(item)

(* ... one paste is answered at a time, and not after the client's own     *)
(* text, ...                                                               *)
OnePasteInv ==
  LET asks    == Of(toServer, {"request"})
      answers == Of(toClient, Answer)
  IN  /\ \A i, j \in asks : i = j
      /\ \A i, j \in answers : i = j
      /\ asks = {} \/ answers = {}
      /\ pasted \in {"nothing", "refused"} => asks = {} /\ answers = {}
      /\ pasted \in {"asked", "refused"} => ~ClientOwns
      /\ pasted = "asked" =>
           \A i \in asks : /\ toServer[i].format = Format(clientBoard.item)
                           /\ \A j \in Of(toServer, {"data"}) : j < i

(* ... a copy of the Mac's that was offered and swapped out again is gone  *)
(* from the pasteboard, one of the client's that is there is noted, ...    *)
SupersededInv ==
  /\ \A item \in Offers :
       item.by = "mac" /\ item # held
         => item # board.item /\ (PollHasItem => item # poll.item)
  /\ poll.at = "swap" /\ held.by = "mac" /\ held # poll.item => held # board.item
  /\ board.item.by = "client" /\ PollHasItem /\ poll.item # board.item /\ LoopIdle
     => board.count = lastChangeCount

(* ... and what the client was refused, or is about to be, will not be     *)
(* swapped in again.                                                       *)
Refusal ==
  \/ pasted = "refused"
  \/ /\ pasted = "asked"
     /\ \E i \in Of(toClient, {"fail"}) : \A j \in Lists(toClient) : i < j

RefusalInv ==
  Refusal =>
    /\ held # clientBoard.item
    /\ PollHasItem => poll.item # clientBoard.item
    /\ board.item = clientBoard.item =>
         /\ board.count = lastChangeCount /\ poll.at # "read"
         /\ poll.at = "compare" => poll.count = lastChangeCount
    /\ LoopIdle /\ Of(toServer, {"data"}) = {}

PasteInv == OriginInv /\ FreshInv /\ OnePasteInv /\ SupersededInv /\ RefusalInv

(* What GarbledIsReplaced rests on: the client's text is listed, or asked  *)
(* for, or sent, in the format the peer will decode it in; or nothing is   *)
(* on its way and nothing on this side is garbled.                         *)
TextIsComing ==
  \/ Of(toServer, {"list"}) # {}
  \/ /\ clipReqFormat = Wanted(clientBoard.item)
     /\ \/ Of(toClient, {"request"}) # {}
        \/ /\ Of(toServer, Answer) # {}
           /\ LatestIs(toServer, Answer, Data(clientBoard.item, clipReqFormat))
        \/ /\ Of(toServer, Answer) = {}
           /\ board.item.kind # "garbled" /\ loop.item.kind # "garbled"

TextInv ==
  /\ LatestIs(toClient, {"request"}, Request(clipReqFormat))
  /\ ClientOwns => LatestIs(toServer, {"list"}, List(clientBoard.item))
  /\ poll.at = "off" => board.item.kind # "garbled" /\ loop = IdleLoop
  /\ ClientOwns /\ Wanted(clientBoard.item) # "no text" => TextIsComing

(* Either side's view of the other's copies, what is on its way between    *)
(* them, and what the poll and the receipt have in hand agree: what is     *)
(* offered is what is held, nothing comes back, nothing refused is held    *)
(* again, and the client's latest text is coming in the format expected.   *)
FollowInv == OfferInv /\ PasteInv /\ TextInv

(* A copy on the Mac that no poll has seen, and no receipt is about to     *)
(* note as its own, is offered to the client, unless it is replaced, or    *)
(* the poll found no memory for it.                                        *)
CopyReachesClient ==
  \A n \in 1 .. MaxMacCopies :
    /\ board.item.by = "mac" /\ board.item.n = n /\ Sendable(board.item)
    /\ poll.at # "off" /\ clipReady /\ LoopIdle /\ board.count # lastChangeCount
    ~> \/ clientBoard.item.by = "mac" /\ clientBoard.item.n = n
       \/ ~(board.item.by = "mac" /\ board.item.n = n)
       \/ poll = Skipped(board.item)

(* Text the client copies while the sync runs reaches the Mac as it was,   *)
(* unless somebody copies something else, on either side.                  *)
CopyReachesMac ==
  \A n \in 1 .. MaxCopies :
    /\ poll.at # "off" /\ macCopies + clientCopies = n
    /\ ClientOwns /\ Wanted(clientBoard.item) # "no text"
    /\ \E i \in Lists(toServer) : toServer[i].item = clientBoard.item
    ~> \/ board.item = clientBoard.item
       \/ macCopies + clientCopies # n \/ ~ClientOwns

(* What the users on both sides may rely on: a copy reaches the other      *)
(* clipboard.                                                              *)
ClipboardsFollow == CopyReachesClient /\ CopyReachesMac

=============================================================================
