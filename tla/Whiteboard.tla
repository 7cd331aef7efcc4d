----------------------------- MODULE Whiteboard -----------------------------
(***************************************************************************)
(* One whiteboard: the image, the deltas and full images JSON chooses from,*)
(* and the copies on the players' pages.  A change colours some cells of   *)
(* the image; which pixels a disc or a line covers is left out, and so is  *)
(* that the page and the server round a disc differently.                  *)
(*                                                                         *)
(* OutputLoop and the joining handlers read the image while GameLoop       *)
(* changes it, without a lock.                                             *)
(***************************************************************************)
EXTENDS Integers, Sequences, SequencesExt

CONSTANTS Hashes,         \* player hashes
          Regions,        \* the cells of the image
          Colors, White,
          MaxEvents       \* bound: inputs applied and joins begun

VARIABLES
    img, lastChange, needsFull, players,  \* the whiteboard's fields
    gamePc, change,        \* where GameLoop is, and with which input
    events,                \* inputs and joins so far
    pending,               \* how often the game is in the output channel
    outPc, message, todo,  \* where OutputLoop is, what it sends, and to whom
    joinPc,                \* where the ws handler of a player is
    read,     \* read[e][c]: the colors cell c had since encoder e began
    copy,     \* copy[p]: the canvas of p's page
    loading,  \* loading[p]: the images p has received and not yet drawn
    rushed    \* history: something began before the last change had settled

fields == <<img, lastChange, needsFull, players>>
gameLoop == <<gamePc, change>>
outputLoop == <<outPc, message, todo>>
pages == <<copy, loading>>
vars == <<fields, gameLoop, events, pending, outputLoop, joinPc, read, pages,
          rushed>>

Images == [Regions -> Colors]
Blank == [c \in Regions |-> White]

\* A drawInput, a clearInput, or one of the three shapes.
Changes ==
    [op : {"draw"}, cells : {{c} : c \in Regions}, color : Colors]
    \cup [op : {"clear"}, cells : {Regions}, color : {White}]
    \cup [op : {"shape"}, cells : SUBSET Regions \ {{}}, color : Colors]
NoChange == [op |-> "draw", cells |-> {}, color |-> White]
LastDraws ==
    [op : {"draw"}, cells : {{}} \cup {{c} : c \in Regions}, color : Colors]

Full(image) == [type |-> "full", png |-> image]
Delta(ch) == [type |-> "delta", change |-> ch]

\* Who runs encodedPNG.
Loop == "OutputLoop"
Encoders == Hashes \cup {Loop}

Paint(image, ch) ==
    [c \in Regions |-> IF c \in ch.cells THEN ch.color ELSE image[c]]

Init ==
    /\ img = Blank /\ lastChange = NoChange /\ needsFull = FALSE
    /\ players = <<>>
    /\ gamePc = "pop" /\ change = NoChange /\ events = 0 /\ pending = 0
    /\ outPc = "pop" /\ message = Delta(NoChange) /\ todo = <<>>
    /\ joinPc = [p \in Hashes |-> "away"]
    /\ read = [e \in Encoders |-> [c \in Regions |-> {}]]
    /\ copy = [p \in Hashes |-> Blank] /\ loading = [p \in Hashes |-> <<>>]
    /\ rushed = FALSE

\* Both loops are done with every change; and so are all joins and pages.
Idle == gamePc = "pop" /\ pending = 0 /\ outPc = "pop"
Still ==
    /\ Idle
    /\ \A p \in Hashes : joinPc[p] \in {"away", "seated"} /\ loading[p] = <<>>

-----------------------------------------------------------------------------
(* GameLoop.                                                               *)

AsksForFull_NotShapes(ch) == ch.op = "clear"
\* The inputs that set needsFull; a draw sets lastChange instead.
AsksForFull(ch) == ch.op # "draw"

\* ChangeState paints.  A full image sent to a board that is still settles it.
ChangeState(ch) ==
    /\ gamePc = "pop" /\ events < MaxEvents
    /\ img' = Paint(img, ch)
    /\ read' = [e \in Encoders |-> [c \in Regions |->
                   read[e][c] \cup (IF read[e][c] = {} THEN {} ELSE {img'[c]})]]
    /\ gamePc' = "mark" /\ change' = ch /\ events' = events + 1
    /\ rushed' = (~Still \/ (rushed /\ ch.op = "draw"))
    /\ UNCHANGED <<lastChange, needsFull, players, pending, outputLoop, joinPc,
                   pages>>

\* ChangeState's last assignment.
Mark ==
    /\ gamePc = "mark"
    /\ IF AsksForFull(change)
       THEN needsFull' = TRUE /\ UNCHANGED lastChange
       ELSE lastChange' = change /\ UNCHANGED needsFull
    /\ gamePc' = "push"
    /\ UNCHANGED <<img, players, change, events, pending, outputLoop, joinPc,
                   read, pages, rushed>>

\* outputChannel.Push
PushOutput ==
    /\ gamePc = "push"
    /\ pending' = pending + 1
    /\ gamePc' = "pop" /\ change' = NoChange
    /\ UNCHANGED <<fields, events, outputLoop, joinPc, read, pages, rushed>>

-----------------------------------------------------------------------------
(* OutputLoop, and the messages as the pages draw them.                    *)

PopOutput ==
    /\ outPc = "pop" /\ pending > 0
    /\ pending' = pending - 1
    /\ outPc' = "json"
    /\ UNCHANGED <<fields, gameLoop, events, message, todo, joinPc, read, pages,
                   rushed>>

\* What a copy of lastChange may hold while GameLoop assigns it.
LastChanges ==
    IF gamePc = "mark" /\ change.op = "draw"
    THEN {[op |-> "draw", cells |-> x.cells, color |-> y.color] :
             x, y \in {lastChange, change}}
    ELSE {lastChange}

NeedsFullAfterJSON_Kept == needsFull
NeedsFullAfterJSON == FALSE

\* JSON up to the encoding.  (Its way out when png.Encode fails is never taken:
\* a buffer in memory does not fail, nor does an image that has pixels.)
JSON ==
    /\ outPc = "json"
    /\ needsFull' = NeedsFullAfterJSON
    /\ IF needsFull
       THEN /\ read' = [read EXCEPT ![Loop] = [c \in Regions |-> {img[c]}]]
            /\ outPc' = "encode"
            /\ UNCHANGED message
       ELSE /\ \E ch \in LastChanges : message' = Delta(ch)
            /\ outPc' = "range"
            /\ UNCHANGED read
    /\ UNCHANGED <<img, lastChange, players, gameLoop, events, pending, todo,
                   joinPc, pages, rushed>>

\* An image whose cells were read at different times while e encoded it.
Encoded(e) == {image \in Images : \A c \in Regions : image[c] \in read[e][c]}
Forget(e) == [read EXCEPT ![e] = [c \in Regions |-> {}]]

EncodedPNG ==
    /\ outPc = "encode"
    /\ \E image \in Encoded(Loop) : message' = Full(image)
    /\ read' = Forget(Loop)
    /\ outPc' = "range"
    /\ UNCHANGED <<fields, gameLoop, events, pending, todo, joinPc, pages,
                   rushed>>

RangePlayers ==
    /\ outPc = "range"
    /\ todo' = players
    /\ outPc' = IF players = <<>> THEN "pop" ELSE "write"
    /\ message' = IF players = <<>> THEN Delta(NoChange) ELSE message
    /\ UNCHANGED <<fields, gameLoop, events, pending, joinPc, read, pages,
                   rushed>>

\* onmessage: a delta is drawn at once, a full image when it has been decoded.
Receive(p, m) ==
    IF m.type = "full"
    THEN /\ loading' = [loading EXCEPT ![p] = Append(@, m.png)]
         /\ UNCHANGED copy
    ELSE /\ copy' = [copy EXCEPT ![p] = Paint(@, m.change)]
         /\ UNCHANGED loading

WriteNext ==
    /\ outPc = "write"
    /\ Receive(Head(todo), message)
    /\ todo' = Tail(todo)
    /\ outPc' = IF Len(todo) > 1 THEN "write" ELSE "pop"
    /\ message' = IF Len(todo) > 1 THEN message ELSE Delta(NoChange)
    /\ UNCHANGED <<fields, gameLoop, events, pending, joinPc, read, rushed>>

\* img.onload; the browser may finish a later image first.
OnLoad(p) ==
    /\ \E i \in DOMAIN loading[p] :
          /\ copy' = [copy EXCEPT ![p] = loading[p][i]]
          /\ loading' = [loading EXCEPT ![p] = RemoveAt(@, i)]
    /\ UNCHANGED <<fields, gameLoop, events, pending, outputLoop, joinPc, read,
                   rushed>>

-----------------------------------------------------------------------------
(* The ws route.  (Engine models how two appends race, and connections that*)
(* close; here an append is one step and pages stay.)                      *)

BeginJoin(p) ==
    /\ joinPc[p] = "away" /\ events < MaxEvents
    /\ events' = events + 1
    /\ joinPc' = [joinPc EXCEPT ![p] = "encode"]
    /\ read' = [read EXCEPT ![p] = [c \in Regions |-> {img[c]}]]
    /\ rushed' = (rushed \/ ~Idle)
    /\ UNCHANGED <<fields, gameLoop, pending, outputLoop, pages>>

SendImage(p) ==
    /\ joinPc[p] = "encode"
    /\ \E image \in Encoded(p) : Receive(p, Full(image))
    /\ read' = Forget(p)
    /\ joinPc' = [joinPc EXCEPT ![p] = "append"]
    /\ UNCHANGED <<fields, gameLoop, events, pending, outputLoop, rushed>>

Seat(p) ==
    /\ joinPc[p] = "append"
    /\ players' = Append(players, p)
    /\ joinPc' = [joinPc EXCEPT ![p] = "seated"]
    /\ UNCHANGED <<img, lastChange, needsFull, gameLoop, events, pending,
                   outputLoop, read, pages, rushed>>

Next ==
    \/ \E ch \in Changes : ChangeState(ch)
    \/ Mark \/ PushOutput
    \/ PopOutput \/ JSON \/ EncodedPNG \/ RangePlayers \/ WriteNext
    \/ \E p \in Hashes : OnLoad(p) \/ BeginJoin(p) \/ SendImage(p) \/ Seat(p)

Spec == Init /\ [][Next]_vars

-----------------------------------------------------------------------------
(* Properties.                                                             *)

\* Every variable stays in its type (all of the modelled code).
TypeOK ==
    /\ img \in Images /\ needsFull \in BOOLEAN
    /\ lastChange \in LastDraws
    /\ players \in Seq(Hashes) /\ todo \in Seq(Hashes)
    /\ gamePc \in {"pop", "mark", "push"}
    /\ change \in Changes \cup {NoChange}
    /\ events \in 0 .. MaxEvents /\ pending \in 0 .. MaxEvents
    /\ outPc \in {"pop", "json", "encode", "range", "write"}
    /\ message \in [type : {"full"}, png : Images]
                   \cup [type : {"delta"}, change : LastDraws]
    /\ joinPc \in [Hashes -> {"away", "encode", "append", "seated"}]
    /\ read \in [Encoders -> [Regions -> SUBSET Colors]]
    /\ copy \in [Hashes -> Images]
    /\ loading \in [Hashes -> Seq(Images)]
    /\ rushed \in BOOLEAN

\* When everything has settled, all players see the image, unless a change or a
\* join began before an earlier one had settled (two draws, of which JSON sends
\* the second twice; a clear whose output is a delta that redraws what it
\* cleared; a change between a join's image and its append).  A full image sent
\* to a settled board brings everybody up to date again.
BoardsAgree ==
    Still /\ ~rushed => \A i \in DOMAIN players : copy[players[i]] = img

\* A full image that is asked for is never forgotten: an output that will be
\* popped is on its way, whoever set and reset needsFull in between.
FullIsOwed == needsFull => gamePc = "push" \/ pending > 0 \/ outPc = "json"
=============================================================================
