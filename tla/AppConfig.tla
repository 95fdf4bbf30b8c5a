------------------------------ MODULE AppConfig ------------------------------
(***************************************************************************)
(* The app's config file: what each edit makes of it and what the app sees *)
(* of it once loaded.  A file has a form: "none" exists, it is "good",     *)
(* "unfit" (parsed, but not a config: loading gives the defaults, and the  *)
(* edits still go through), "torn" (does not parse: edits are refused) or  *)
(* "unread" (it exists and is no text: an edit finds nothing in it).       *)
(*                                                                         *)
(* The id of an entry is a number: n stands for "curve<n>" or "custom<n>", *)
(* the id of an entry without one at place n; 0 is the empty id, and the   *)
(* larger numbers are those the user wrote by hand.  A key is              *)
(* <<kind, n>>, of a channel, a fan or a sensor of the chip.  A name is a  *)
(* text of `TextInput`; one the app gives is a single character.           *)
(***************************************************************************)
EXTENDS CurveEditor, TextInput

NoValues == <<>>
BlankDoc == [curves |-> <<>>, customs |-> <<>>, dashboard |-> <<>>,
             hidden |-> <<>>, values |-> NoValues]
NoFile == [form |-> "none", doc |-> BlankDoc]
Unread == [form |-> "unread", doc |-> BlankDoc]

(* A config as the user may leave it: whatever the names and the numbers,  *)
(* names are texts and curves are defined.                                 *)
IsConfig(doc) ==
  /\ DOMAIN doc = DOMAIN BlankDoc
  /\ \A table \in {doc.curves, doc.customs} :
       /\ table \in Seq(Range(table))
       /\ \A i \in DOMAIN table :
            DOMAIN table[i] = {"id", "name", "def"} /\ IsText(table[i].name)
  /\ \A i \in DOMAIN doc.curves : IsDef(doc.curves[i].def)
  /\ \A k \in DOMAIN doc.values : k[1] = "chips" => IsText(doc.values[k])

(* edit_config: a file that does not parse is left to its author, one that *)
(* cannot be read is overwritten.                                          *)
Edited(file, doc) ==
  IF file.form = "torn" THEN file
  ELSE [form |-> IF file.form \in {"none", "unread"} THEN "good" ELSE file.form,
        doc |-> doc]

(* The name an entry without one goes by.                                  *)
IdName(kind, id) == Encode(<<kind, id>>)

-----------------------------------------------------------------------------
(* The tables of curves and of custom sensors: sequences of [id, name,     *)
(* def].  An edit looks for the first entry of that id.                    *)

(* Mutant: an entry goes by its place.                                     *)
PositionalId(entries, i) == i

EntryId(entries, i) == IF entries[i].id = None THEN i ELSE entries[i].id

Place(entries, id) ==
  LET places == {i \in DOMAIN entries : EntryId(entries, i) = id}
  IN IF places = {} THEN 0 ELSE Min(places)

PutEntry(entries, entry) ==
  LET i == Place(entries, entry.id)
  IN IF i = 0 THEN Append(entries, entry) ELSE [entries EXCEPT ![i] = entry]

RemoveEntry(entries, id) ==
  LET i == Place(entries, id)
  IN IF i = 0 THEN entries ELSE RemoveAt(entries, i)

RenameEntry(entries, id, name) ==
  LET i == Place(entries, id)
  IN IF i = 0 THEN entries ELSE [entries EXCEPT ![i].name = name]

(* What is written of a curve: its functions, its window and its kind as   *)
(* they would be evaluated, whatever kept its old hysteresis apart.        *)
Written(def) ==
  [def EXCEPT !.functions = SaneFunctions(def), !.hysteresis = Hysteresis,
              !.window = SaneWindow(@), !.kind = SaneKind(@)]

SaveCurve(doc, curve) ==
  [doc EXCEPT !.curves = PutEntry(@, [curve EXCEPT !.def = Written(@)])]
DeleteCurve(doc, id) == [doc EXCEPT !.curves = RemoveEntry(@, id)]
SaveCurveName(doc, id, name) ==
  [doc EXCEPT !.curves = RenameEntry(@, id, name)]
SaveCustom(doc, custom) == [doc EXCEPT !.customs = PutEntry(@, custom)]
DeleteCustom(doc, id) == [doc EXCEPT !.customs = RemoveEntry(@, id)]
SaveCustomName(doc, id, name) ==
  [doc EXCEPT !.customs = RenameEntry(@, id, name)]

-----------------------------------------------------------------------------
(* The other tables: values by <<section, key>>, the pins in the order of  *)
(* the dashboard, and the keys the chip hides.                             *)

Put(map, key, v) ==
  [k \in DOMAIN map \cup {key} |-> IF k = key THEN v ELSE map[k]]

SetValue(doc, section, key, v) ==
  LET others == Restrict(doc.values, DOMAIN doc.values \ {<<section, key>>})
  IN [doc EXCEPT !.values =
        IF v = None THEN others ELSE Put(others, <<section, key>>, v)]

SaveChipName(doc, key, name) == SetValue(doc, "chips", key, name)
SetGraphField(doc, section, key, v) == SetValue(doc, section, key, v)
SaveFanCurve(doc, fan, id) == SetValue(doc, "fan_curve", fan, id)
SaveCurveColor(doc, id, color) ==
  SetValue(doc, "curve_color", <<"curve", id>>, color)
SaveUnits(doc, temp, fan) ==
  SetValue(SetValue(doc, "units", <<"temperature", 0>>, temp),
           "units", <<"fan", 0>>, fan)

SetDashboardPinned(doc, item, pinned) ==
  LET others == SelectSeq(doc.dashboard, LAMBDA i : i # item)
  IN [doc EXCEPT !.dashboard = IF pinned THEN Append(others, item) ELSE others]

SetHidden(doc, key, hidden) ==
  LET others == SelectSeq(doc.hidden, LAMBDA k : k # key)
  IN [doc EXCEPT !.hidden = IF hidden THEN Append(others, key) ELSE others]

(* Once there is hardware and no file, one with the units and every name   *)
(* commented out.                                                          *)
WriteTemplate(file) ==
  IF file.form = "none"
  THEN [form |-> "good", doc |-> SaveUnits(BlankDoc, "celsius", "rpm")]
  ELSE file

-----------------------------------------------------------------------------
(* The file as the app sees it.                                            *)

WithFallbacks(kind, entries) ==
  [i \in DOMAIN entries |->
    LET id == IF entries[i].id \in {None, 0} THEN i ELSE entries[i].id
    IN [entries[i] EXCEPT !.id = id,
                          !.name = IF @ = <<>> THEN IdName(kind, id) ELSE @]]

IsValid(item) == item[2] # None   \* a pin names what it pins

(* Each pin once, where it stands first.                                   *)
Pins(items) ==
  LET valid == SelectSeq(items, IsValid)
      first == SelectSeq([i \in DOMAIN valid |-> i],
                         LAMBDA i : \A j \in 1..(i - 1) : valid[j] # valid[i])
  IN [k \in DOMAIN first |-> valid[first[k]]]

(* Mutant: definitions are taken as they are written.                      *)
LoadRaw(file) ==
  LET doc == IF file.form = "good" THEN file.doc ELSE BlankDoc
  IN [doc EXCEPT !.curves = WithFallbacks("curve", @),
                 !.customs = WithFallbacks("custom", @), !.dashboard = Pins(@)]

Load(file) ==
  LET doc == IF file.form = "good" THEN file.doc ELSE BlankDoc
      curves == WithFallbacks("curve", doc.curves)
  IN [doc EXCEPT
        !.curves = [i \in DOMAIN curves |->
                      [curves[i] EXCEPT !.def = NormalizedDef(@)]],
        !.customs = WithFallbacks("custom", @),
        !.dashboard = Pins(@)]

ValueOr(names, section, key, default) ==
  IF <<section, key>> \in DOMAIN names.values
  THEN names.values[<<section, key>>] ELSE default

UnitsOf(names) ==
  [temp |-> ValueOr(names, "units", <<"temperature", 0>>, "celsius"),
   fan |-> ValueOr(names, "units", <<"fan", 0>>, "rpm")]

(* The last curve chosen for a fan; an empty id is none.                   *)
FanCurve(names, fan) ==
  LET id == ValueOr(names, "fan_curve", fan, 0) IN IF id = 0 THEN None ELSE id

Label(names, key, default) == ValueOr(names, "chips", key, default)
CurveColor(names, id, default) ==
  ValueOr(names, "curve_color", <<"curve", id>>, default)
IsPinned(names, item) == Contains(names.dashboard, item)

(* A channel is hidden by its own key, its category's (its kind and 0) or  *)
(* its chip's.                                                             *)
Category(key) ==
  IF key[2] = 0 \/ key[1] \notin {"fan", "temp", "power"} THEN None ELSE <<key[1], 0>>
HiddenAbove(names, key) ==
  \E hider \in {Category(key), <<"device", 0>>} \ {key} : Contains(names.hidden, hider)
IsHidden(names, key) == Contains(names.hidden, key) \/ HiddenAbove(names, key)
=============================================================================
