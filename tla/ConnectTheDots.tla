--------------------------- MODULE ConnectTheDots ---------------------------
(***************************************************************************)
(* One connect-the-dots game: addEdge, and the credit of claimed boxes.    *)
(* The field is a grid of 2 * Size - 1 coordinates: points where both are  *)
(* even, boxes where both are odd, edges elsewhere.  Who drew an edge is   *)
(* only shown, so an edge is drawn or not.                                 *)
(***************************************************************************)
EXTENDS Integers, Sequences, FiniteSets

CONSTANTS Hashes,  \* player hashes
          Size     \* dots in a row: 8 in the route, at least 2

EMPTY == 0
BLUE == 1
RED == 2

Last == 2 * Size - 2
Field == (0 .. Last) \X (0 .. Last)
Boxes == {c \in Field : c[1] % 2 = 1 /\ c[2] % 2 = 1}
Edges == {c \in Field : c[1] % 2 # c[2] % 2}

VARIABLES
    drawn,     \* the edges of the field that are not EMPTY
    owner,     \* the field at the boxes
    turn, players,
    panicked,  \* GameLoop has panicked and ended the process
    credited   \* history: credited[t], how often ConsumeWinners returned t

vars == <<drawn, owner, turn, players, panicked, credited>>

Init ==
    /\ drawn = {} /\ owner = [b \in Boxes |-> EMPTY]
    /\ turn = BLUE /\ players = <<>>
    /\ panicked = FALSE
    /\ credited = [t \in {BLUE, RED} |-> 0]

\* The ws route seats two players; Engine models how they race for it.
NewPlayer(p) ==
    /\ ~panicked /\ Len(players) < 2
    /\ \A i \in DOMAIN players : players[i] # p
    /\ players' = Append(players, p)
    /\ UNCHANGED <<drawn, owner, turn, panicked, credited>>

\* A message can name what is not on the page, but nothing negative: the numbers
\* in it are separated by "-".
Choices == (0 .. 2 * Size) \X (0 .. 2 * Size)

\* The checks of addEdge.
InBounds(c) == c[1] < Size * 2 /\ c[2] < Size * 2
IsEdge(c) == c[1] % 2 # c[2] % 2
Accepted(team, c) == team = turn /\ InBounds(c) /\ IsEdge(c)

Neighbours(c) == {<<c[1] - 1, c[2]>>, <<c[1] + 1, c[2]>>,
                  <<c[1], c[2] - 1>>, <<c[1], c[2] + 1>>}

AffectedCells_OneSide(c) ==
    IF c[1] % 2 = 0 THEN {<<c[1] + 1, c[2]>>} \cap Boxes
    ELSE {<<c[1], c[2] + 1>>} \cap Boxes
AffectedCells(c) ==
    IF c[1] % 2 = 0 THEN {<<c[1] - 1, c[2]>>, <<c[1] + 1, c[2]>>} \cap Boxes
    ELSE {<<c[1], c[2] - 1>>, <<c[1], c[2] + 1>>} \cap Boxes

\* The boxes that have no owner and, with the edge c, no open side.
Claimed(c) == {b \in AffectedCells(c) :
                  owner[b] = EMPTY /\ Neighbours(b) \subseteq drawn \cup {c}}

Credits_OnePerEdge(claimed) == IF claimed = {} THEN 0 ELSE 1
Credits(claimed) == Cardinality(claimed)

\* addEdge, and GameLoop's ConsumeWinners.  An edge that is taken already claims
\* nothing and passes the turn like any other.
AddEdge(team, c) ==
    LET claimed == Claimed(c) IN
    /\ Accepted(team, c) /\ c \in Field
    /\ drawn' = drawn \cup {c}
    /\ owner' = [b \in Boxes |-> IF b \in claimed THEN team ELSE owner[b]]
    /\ turn' = IF claimed = {} THEN (turn % 2) + 1 ELSE turn
    /\ credited' = [credited EXCEPT ![team] = @ + Credits(claimed)]
    /\ UNCHANGED <<players, panicked>>

\* The bound lets 2 * Size - 1 through, which is one past the field.
PastTheField(team, c) ==
    /\ Accepted(team, c) /\ c \notin Field
    /\ panicked' = TRUE
    /\ UNCHANGED <<drawn, owner, turn, players, credited>>

Ignored(team, c) == ~Accepted(team, c) /\ UNCHANGED vars

\* GameLoop applies a choice of the player at index team - 1.
HandleInput(team, c) ==
    /\ ~panicked
    /\ AddEdge(team, c) \/ PastTheField(team, c) \/ Ignored(team, c)

Next == \/ \E p \in Hashes : NewPlayer(p)
        \/ \E team \in DOMAIN players, c \in Choices : HandleInput(team, c)

Spec == Init /\ [][Next]_vars

-----------------------------------------------------------------------------
(* Properties.                                                             *)

\* Every variable stays in its type (all of the modelled code).
TypeOK ==
    /\ drawn \in SUBSET Edges /\ owner \in [Boxes -> {EMPTY, BLUE, RED}]
    /\ turn \in {BLUE, RED}
    /\ players \in Seq(Hashes) /\ Len(players) <= 2
    /\ panicked \in BOOLEAN
    /\ credited \in [{BLUE, RED} -> Nat]

\* A box has an owner exactly when all four of its sides are drawn, also when
\* one edge closes two boxes, and at the border (addEdge looks only at the cells
\* next to the edge).
BoxesOwned ==
    \A b \in Boxes : owner[b] # EMPTY <=> \A e \in Edges :
        (e[1] - b[1]) * (e[1] - b[1]) + (e[2] - b[2]) * (e[2] - b[2]) = 1
            => e \in drawn

\* Over the whole game a player was credited once for each box it owns: no box
\* changes hands, and no claim is lost or credited twice.
CreditsAreBoxes ==
    \A t \in {BLUE, RED} : credited[t] = Cardinality({b \in Boxes : owner[b] = t})
=============================================================================
