------------------------------ MODULE TextInput ------------------------------
(***************************************************************************)
(* The single-line text fields: a text, a caret and a selection, edited by *)
(* keys.  A text is the sequence of its bytes, each the character it       *)
(* belongs to and its place in it, for the caret is a byte offset and Rust *)
(* panics when it slices a text within a character.                        *)
(***************************************************************************)
EXTENDS Integers, Sequences, SequencesExt, FiniteSets

CONSTANTS
  NoAnchor,   \* no selection was begun
  Space,      \* the whitespace character
  Wide        \* characters of two bytes

Encode(c) == IF c \in Wide THEN << <<c, 1>>, <<c, 2>> >> ELSE << <<c, 1>> >>
Text(chars) == FlattenSeq([i \in DOMAIN chars |-> Encode(chars[i])])

(* The characters, in the order of the bytes that start them.              *)
StartsChar(byte) == byte[2] = 1
Starts(text) == {i \in DOMAIN text : StartsChar(text[i])}
Chars(text) ==
  LET Start(k) == CHOOSE i \in Starts(text) : Cardinality(Starts(text) \cap 1..i) = k
  IN [k \in 1..Cardinality(Starts(text)) |-> text[Start(k)][1]]
Blank(byte) == byte[1] = Space

Boundaries(text) ==
  {p \in 0..Len(text) : p = Len(text) \/ StartsChar(text[p + 1])}

Trimmed(text) ==
  LET kept == {i \in DOMAIN text : ~Blank(text[i])}
  IN IF kept = {} THEN <<>> ELSE SubSeq(text, Min(kept), Max(kept))

(* The field: its caret stands after so many bytes, its selection is       *)
(* between the caret and the anchor.                                       *)
Field(text) == [text |-> text, cursor |-> Len(text), anchor |-> NoAnchor]

SelectionStart(e) ==
  IF e.anchor # NoAnchor /\ e.anchor < e.cursor THEN e.anchor ELSE e.cursor
SelectionEnd(e) ==
  IF e.anchor # NoAnchor /\ e.anchor > e.cursor THEN e.anchor ELSE e.cursor
HasSelection(e) == SelectionStart(e) < SelectionEnd(e)
SelectedText(e) == SubSeq(e.text, SelectionStart(e) + 1, SelectionEnd(e))

-----------------------------------------------------------------------------
(* Where the caret goes.                                                   *)

(* Mutant: a character is a byte.                                          *)
PrevByte(e) == IF e.cursor = 0 THEN 0 ELSE e.cursor - 1

PrevChar(e) == Max({0} \cup {p \in Boundaries(e.text) : p < e.cursor})
NextChar(e) ==
  Min({Len(e.text)} \cup {p \in Boundaries(e.text) : p > e.cursor})

(* Over blanks, then over a word, whatever follows it.                     *)
PrevWord(e) ==
  LET Crossed(p) == ~\E i, j \in p + 1..e.cursor :
                       i < j /\ Blank(e.text[i]) /\ ~Blank(e.text[j])
  IN Min({p \in Boundaries(e.text) : p <= e.cursor /\ Crossed(p)})
NextWord(e) ==
  LET Crossed(p) == ~\E i, j \in e.cursor + 1..p :
                       i < j /\ ~Blank(e.text[i]) /\ Blank(e.text[j])
  IN Max({p \in Boundaries(e.text) : p >= e.cursor /\ Crossed(p)})

MoveTo(e, target, selecting) ==
  LET at == Max({p \in Boundaries(e.text) : p <= target})
  IN [e EXCEPT !.cursor = at,
               !.anchor = IF ~selecting THEN NoAnchor
                          ELSE IF @ = NoAnchor THEN e.cursor ELSE @]

MoveLeft(e, selecting, byWord) ==
  IF HasSelection(e) /\ ~selecting THEN MoveTo(e, SelectionStart(e), FALSE)
  ELSE MoveTo(e, IF byWord THEN PrevWord(e) ELSE PrevChar(e), selecting)
MoveRight(e, selecting, byWord) ==
  IF HasSelection(e) /\ ~selecting THEN MoveTo(e, SelectionEnd(e), FALSE)
  ELSE MoveTo(e, IF byWord THEN NextWord(e) ELSE NextChar(e), selecting)

SelectAll(e) ==
  IF e.text = <<>> THEN e ELSE [e EXCEPT !.cursor = Len(e.text), !.anchor = 0]

-----------------------------------------------------------------------------
(* What the text becomes.                                                  *)

ReplaceRange(e, from, to, bytes) ==
  [text |-> SubSeq(e.text, 1, from) \o bytes \o SubSeq(e.text, to + 1, Len(e.text)),
   cursor |-> from + Len(bytes), anchor |-> NoAnchor]

(* Mutant: the room a selection leaves is counted in bytes.                *)
InsertCountingBytes(e, chars, max) ==
  LET room == max - (Len(Chars(e.text)) - Len(SelectedText(e)))
      taken == SubSeq(chars, 1, Min({Len(chars), Max({room, 0})}))
  IN IF taken = <<>> THEN e
     ELSE ReplaceRange(e, SelectionStart(e), SelectionEnd(e), Text(taken))

(* As many of the characters as there is room for (a name allows any); a   *)
(* full text leaves a selection alone.                                     *)
InsertFiltered(e, chars, max) ==
  LET room == max - (Len(Chars(e.text)) - Len(Chars(SelectedText(e))))
      taken == SubSeq(chars, 1, Min({Len(chars), Max({room, 0})}))
  IN IF taken = <<>> THEN e
     ELSE ReplaceRange(e, SelectionStart(e), SelectionEnd(e), Text(taken))

DeleteRange(e, from, to) ==
  IF from = to THEN e ELSE ReplaceRange(e, from, to, <<>>)
DeleteSelection(e) == DeleteRange(e, SelectionStart(e), SelectionEnd(e))

DeleteBackward(e, byWord) ==
  IF HasSelection(e) THEN DeleteSelection(e)
  ELSE DeleteRange(e, IF byWord THEN PrevWord(e) ELSE PrevChar(e), e.cursor)
DeleteForward(e, byWord) ==
  IF HasSelection(e) THEN DeleteSelection(e)
  ELSE DeleteRange(e, e.cursor, IF byWord THEN NextWord(e) ELSE NextChar(e))

(* A key, held with control or shift or neither; `chars` is what it types. *)
HandleTextKey(e, k, max, clipboard) ==
  CASE k.key = "a" /\ k.ctrl -> SelectAll(e)
    [] k.key = "x" /\ k.ctrl ->
         IF HasSelection(e) THEN DeleteForward(e, FALSE) ELSE e
    [] k.key = "v" /\ k.ctrl -> InsertFiltered(e, clipboard, max)
    [] k.key = "backspace" -> DeleteBackward(e, k.ctrl)
    [] k.key = "delete" -> DeleteForward(e, k.ctrl)
    [] k.key = "left" -> MoveLeft(e, k.shift, k.ctrl)
    [] k.key = "right" -> MoveRight(e, k.shift, k.ctrl)
    [] k.key = "home" -> MoveTo(e, 0, k.shift)
    [] k.key = "end" -> MoveTo(e, Len(e.text), k.shift)
    [] k.key = "type" /\ ~k.ctrl -> InsertFiltered(e, k.chars, max)
    [] OTHER -> e

(* What a cut or a copy leaves on the clipboard.                           *)
Clipped(e, k, clipboard) ==
  IF k.key \in {"c", "x"} /\ k.ctrl /\ HasSelection(e)
  THEN Chars(SelectedText(e)) ELSE clipboard

(* No character was cut in two.                                            *)
Intact(text) ==
  \A i \in DOMAIN text : LET c == text[i][1] IN
    \/ /\ text[i] = <<c, 1>>
       /\ c \in Wide => i + 1 \in DOMAIN text /\ text[i + 1] = <<c, 2>>
    \/ /\ c \in Wide /\ text[i] = <<c, 2>>
       /\ i - 1 \in DOMAIN text /\ text[i - 1] = <<c, 1>>

(* A string is always whole characters, a file's too.                      *)
IsText(text) == text \in Seq(Range(text)) /\ Intact(text)

(* Everything the slices rely on: the text is whole characters, and the    *)
(* caret and the anchor stand between them.                                *)
Sliceable(e) ==
  /\ Intact(e.text)
  /\ e.cursor \in Boundaries(e.text)
  /\ e.anchor \in Boundaries(e.text) \cup {NoAnchor}
=============================================================================
