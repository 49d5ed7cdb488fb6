-------------------------------- MODULE Lines --------------------------------
(***************************************************************************)
(* A list of lines filled by hand: added, changed in their row or in a     *)
(* sheet, removed, put back, filled by an answer that comes later, or read *)
(* again while another device changes them.  Whatever happens between the  *)
(* gesture and its effect, it is for the line it was made on.              *)
(*                                                                         *)
(* What a list lets do is its row in LineRows (those of the frontend are   *)
(* in LineTables): how a change finds its line, by what the line is or by  *)
(* the place it had, and the gestures its parts offer:                     *)
(*   join     an article is added: one more if it is there, else a line    *)
(*   find     the same, once the backend has answered                      *)
(*   new      a line of its own is added                                   *)
(*   change   a line changes in its row                                    *)
(*   zero     less and less of an article removes it                       *)
(*   remove   a line is removed                                            *)
(*   undo     and put back where it was                                    *)
(*   up, copy a line goes up, or another like it is put after it           *)
(*   open     a sheet is opened on a line, to change it                    *)
(*   delete   or to remove it                                              *)
(*   ask      the backend answers later something for one line: the        *)
(*            article made for it, its picture, that it refuses it         *)
(*   reread   what the backend has takes the place of the list             *)
(*                                                                         *)
(* Bounds: MaxLines lines, MaxOf of each.                                  *)
(***************************************************************************)
EXTENDS Naturals, FiniteSets, SequencesExt

CONSTANTS
  LineRows,
  Misplacing,   \* rows whose changes may go to another line
  MaxLines, MaxOf

Gestures ==
  {"join", "find", "new", "change", "zero", "remove", "undo", "up", "copy",
   "open", "delete", "ask", "reread"}

LineKinds == [points : {"line", "place"}, offers : SUBSET Gestures]

(* A row where no line moves between a gesture kept with a place and its   *)
(* effect: while a sheet is open, or while an answer is awaited.           *)
Steady(row) ==
  LET others == {"undo", "up", "copy", "reread"} IN
  row.points = "place" =>
    /\ "open" \in row.offers => row.offers \cap others = {}
    /\ "ask" \in row.offers =>
         row.offers \cap (others \cup {"zero", "remove", "delete"}) = {}

ASSUME LinesAssumption ==
  /\ \A t \in DOMAIN LineRows :
       /\ LineRows[t] \in LineKinds
       /\ t \notin Misplacing => Steady(LineRows[t])
       /\ "undo" \in LineRows[t].offers =>
            LineRows[t].offers \cap {"join", "find"} = {}
  /\ Misplacing \subseteq DOMAIN LineRows
  /\ MaxLines \in Nat \ {0} /\ MaxOf \in Nat \ {0}

VARIABLES
  table,      \* the list, one of LineRows
  lines,      \* its lines, in order
  wished,     \* what each line should be, for those that should be there
  inSheet,    \* the line of the open sheet, and its place
  awaited,    \* the line an answer is for, or the article it adds
  removed,    \* the removed line that may be put back, where it was
  misplaced   \* a change went to another line

linesVars == <<table, lines, wished, inSheet, awaited, removed, misplaced>>

Ids == 1..MaxLines
Values == 1..MaxOf
Points == LineRows[table].points
Offers(gesture) == gesture \in LineRows[table].offers
NoPlace == [id |-> 0, place |-> 0]
There == [id : Ids, place : 0..MaxLines]
NoLine == [id |-> 0, place |-> 0, value |-> 0]

Held == {lines[i].id : i \in DOMAIN lines}
Without(f, id) == [x \in DOMAIN f \ {id} |-> f[x]]
With(f, id, v) == [x \in DOMAIN f \cup {id} |-> IF x = id THEN v ELSE f[x]]

(* One more of an article: of its line, or in a line of its own.           *)
More(f, id) ==
  IF id \in DOMAIN f THEN IF f[id] < MaxOf THEN f[id] + 1 ELSE MaxOf ELSE 1

(* Mutant: a second line of it.                                            *)
AlwaysAppended(s, id) == Append(s, [id |-> id, value |-> 1])

OneMore(s, id) ==
  IF \E i \in DOMAIN s : s[i].id = id
  THEN [i \in DOMAIN s |->
          IF s[i].id = id /\ s[i].value < MaxOf
          THEN [s[i] EXCEPT !.value = @ + 1] ELSE s[i]]
  ELSE Append(s, [id |-> id, value |-> 1])

(* Those nothing refers to: a new line is one of them.                     *)
NewIds == Ids \ (Held \cup {inSheet.id, awaited.id, removed.id})

(* Where a change made for a line that was at a place goes; 0, nowhere.    *)
Target(from) ==
  IF Points = "place" THEN from.place
  ELSE IF from.id \in Held
       THEN CHOOSE i \in DOMAIN lines : lines[i].id = from.id ELSE 0

Misses(from) ==
  /\ Target(from) # 0
  /\ Target(from) \notin DOMAIN lines \/ lines[Target(from)].id # from.id

-----------------------------------------------------------------------------
LinesInit ==
  /\ table \in DOMAIN LineRows
  /\ lines \in UNION {[1..n -> [id : Ids, value : {1}]] : n \in 0..MaxLines}
  /\ \A i \in DOMAIN lines : lines[i].id = i
  /\ wished = [id \in Held |-> 1]
  /\ inSheet = NoPlace /\ awaited = NoPlace /\ removed = NoLine
  /\ misplaced = FALSE

(* A line of its own, or an article picked in the catalogue.               *)
AddLine(id) ==
  /\ inSheet = NoPlace
  /\ \/ /\ Offers("new") /\ id \in NewIds /\ Len(lines) < MaxLines
        /\ lines' = Append(lines, [id |-> id, value |-> 1])
        /\ wished' = With(wished, id, 1)
     \/ /\ Offers("join")
        /\ lines' = OneMore(lines, id)
        /\ wished' = With(wished, id, More(wished, id))
  /\ UNCHANGED <<table, inSheet, awaited, removed, misplaced>>

(* In its row: at once.                                                    *)
ChangeLine(i, v) ==
  /\ Offers("change") /\ inSheet = NoPlace /\ lines[i].value # v
  /\ lines' = [lines EXCEPT ![i].value = v]
  /\ wished' = With(wished, lines[i].id, v)
  /\ UNCHANGED <<table, inSheet, awaited, removed, misplaced>>

RemoveLine(i) ==
  /\ Offers("remove") /\ inSheet = NoPlace
  /\ lines' = RemoveAt(lines, i) /\ wished' = Without(wished, lines[i].id)
  /\ removed' = IF Offers("undo")
                THEN [id |-> lines[i].id, place |-> i, value |-> lines[i].value]
                ELSE removed
  /\ UNCHANGED <<table, inSheet, awaited, misplaced>>

(* The quantity of an article goes down to none.                           *)
NoMoreOf(i) ==
  /\ Offers("zero") /\ inSheet = NoPlace /\ lines[i].value = 1
  /\ lines' = RemoveAt(lines, i) /\ wished' = Without(wished, lines[i].id)
  /\ UNCHANGED <<table, inSheet, awaited, removed, misplaced>>

-----------------------------------------------------------------------------
(* A removed line comes back at its place, or last.                        *)
PutBack ==
  /\ removed # NoLine /\ Len(lines) < MaxLines
  /\ LET at == IF removed.place > Len(lines) THEN Len(lines) + 1
               ELSE removed.place
     IN lines' = InsertAt(lines, at, [id |-> removed.id,
                                      value |-> removed.value])
  /\ wished' = With(wished, removed.id, removed.value) /\ removed' = NoLine
  /\ UNCHANGED <<table, inSheet, awaited, misplaced>>

(* The notification that offers it goes.                                   *)
LeaveOut ==
  /\ removed # NoLine /\ removed' = NoLine
  /\ UNCHANGED <<table, lines, wished, inSheet, awaited, misplaced>>

MoveUp(i) ==
  /\ Offers("up") /\ i > 1
  /\ lines' = [lines EXCEPT ![i] = lines[i - 1], ![i - 1] = lines[i]]
  /\ UNCHANGED <<table, wished, inSheet, awaited, removed, misplaced>>

Duplicate(i, id) ==
  /\ Offers("copy") /\ id \in NewIds /\ Len(lines) < MaxLines
  /\ lines' = InsertAt(lines, i + 1, [id |-> id, value |-> lines[i].value])
  /\ wished' = With(wished, id, lines[i].value)
  /\ UNCHANGED <<table, inSheet, awaited, removed, misplaced>>

-----------------------------------------------------------------------------
OpenLine(i) ==
  /\ Offers("open") /\ inSheet = NoPlace
  /\ inSheet' = [id |-> lines[i].id, place |-> i]
  /\ UNCHANGED <<table, lines, wished, awaited, removed, misplaced>>

(* What the sheet has goes to its line; a place beyond the end, to none.   *)
SubmitLine(v) ==
  /\ inSheet # NoPlace
  /\ lines' = [i \in DOMAIN lines |->
                 IF i = Target(inSheet) THEN [lines[i] EXCEPT !.value = v]
                 ELSE lines[i]]
  /\ wished' = IF inSheet.id \in DOMAIN wished THEN With(wished, inSheet.id, v)
              ELSE wished
  /\ misplaced' = (misplaced \/ Misses(inSheet))
  /\ inSheet' = NoPlace
  /\ UNCHANGED <<table, awaited, removed>>

DeleteLine ==
  /\ Offers("delete") /\ inSheet # NoPlace
  /\ lines' = IF Target(inSheet) \in DOMAIN lines
              THEN RemoveAt(lines, Target(inSheet)) ELSE lines
  /\ wished' = Without(wished, inSheet.id)
  /\ misplaced' = (misplaced \/ Misses(inSheet))
  /\ inSheet' = NoPlace
  /\ UNCHANGED <<table, awaited, removed>>

CloseLine ==
  /\ inSheet # NoPlace /\ inSheet' = NoPlace
  /\ UNCHANGED <<table, lines, wished, awaited, removed, misplaced>>

-----------------------------------------------------------------------------
(* Something is asked for: an article to be added, or what is for a line.  *)
(* The sheet or dialog that asked may be closed before the answer.         *)
LookUp(id) ==
  /\ Offers("find") /\ inSheet = NoPlace
  /\ awaited = NoPlace /\ awaited' = [id |-> id, place |-> 0]
  /\ UNCHANGED <<table, lines, wished, inSheet, removed, misplaced>>

CreateFor(i) ==
  /\ Offers("ask") /\ inSheet = NoPlace
  /\ awaited = NoPlace /\ awaited' = [id |-> lines[i].id, place |-> i]
  /\ UNCHANGED <<table, lines, wished, inSheet, removed, misplaced>>

Added ==
  /\ awaited # NoPlace /\ awaited.place = 0
  /\ lines' = OneMore(lines, awaited.id)
  /\ wished' = With(wished, awaited.id, More(wished, awaited.id))
  /\ awaited' = NoPlace
  /\ UNCHANGED <<table, inSheet, removed, misplaced>>

(* A field set at a place beyond the end makes a line of what it has.      *)
Filled(v) ==
  /\ awaited # NoPlace /\ awaited.place # 0
  /\ lines' = IF Target(awaited) > Len(lines)
              THEN Append(lines, [id |-> awaited.id, value |-> v])
              ELSE [i \in DOMAIN lines |->
                      IF i = Target(awaited) THEN [lines[i] EXCEPT !.value = v]
                      ELSE lines[i]]
  /\ wished' = IF awaited.id \in DOMAIN wished THEN With(wished, awaited.id, v)
              ELSE wished
  /\ misplaced' = (misplaced \/ Misses(awaited))
  /\ awaited' = NoPlace
  /\ UNCHANGED <<table, inSheet, removed>>

NotAnswered ==
  /\ awaited # NoPlace /\ awaited' = NoPlace
  /\ UNCHANGED <<table, lines, wished, inSheet, removed, misplaced>>

(* Another device removed a line or changed it, and the list is read again *)
(* without this page being told: the network came back.                    *)
ReadAnew(i) ==
  /\ Offers("reread")
  /\ \/ lines' = RemoveAt(lines, i) /\ wished' = Without(wished, lines[i].id)
     \/ \E v \in Values \ {lines[i].value} :
          /\ lines' = [lines EXCEPT ![i].value = v]
          /\ wished' = With(wished, lines[i].id, v)
  /\ UNCHANGED <<table, inSheet, awaited, removed, misplaced>>

LinesNext ==
  /\ ~misplaced
  /\ \/ PutBack \/ LeaveOut \/ DeleteLine \/ CloseLine
     \/ Added \/ NotAnswered
     \/ \E v \in Values : SubmitLine(v) \/ Filled(v)
     \/ \E id \in Ids : AddLine(id) \/ LookUp(id)
     \/ \E i \in DOMAIN lines :
          \/ RemoveLine(i) \/ NoMoreOf(i) \/ MoveUp(i) \/ OpenLine(i)
          \/ CreateFor(i) \/ ReadAnew(i)
          \/ \E v \in Values : ChangeLine(i, v)
          \/ \E id \in Ids : Duplicate(i, id)

-----------------------------------------------------------------------------
LinesTypeOK ==
  /\ table \in DOMAIN LineRows
  /\ lines \in Seq([id : Ids, value : Values])
  /\ DOMAIN wished \subseteq Ids
  /\ \A id \in DOMAIN wished : wished[id] \in Values
  /\ inSheet \in There \cup {NoPlace} /\ awaited \in There \cup {NoPlace}
  /\ removed \in [id : Ids, place : Ids, value : Values] \cup {NoLine}
  /\ misplaced \in BOOLEAN

(* Every line is what its own gestures made it, and nobody else's: no      *)
(* change, late answer, removal or line put back goes to another line, and *)
(* an article has one line.  In the lists of Misplacing, where a change is *)
(* kept with the place of its line, that place may be another's by then.   *)
LinesAsMeant ==
  /\ misplaced => table \in Misplacing
  /\ ~misplaced =>
       /\ Len(lines) = Cardinality(Held) /\ Held = DOMAIN wished
       /\ \A i \in DOMAIN lines : lines[i].value = wished[lines[i].id]
=============================================================================
