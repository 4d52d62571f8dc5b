---------------------------- MODULE PatchDocument ----------------------------
(* The edits of an environment's patch, home/cordis.patch.yml                  *)
(* (packages/runtime/src/plugins/patch-config.ts, entry-patch-port.ts and       *)
(* packages/core/src/entry-patch-service.ts): enable, disable, configure and     *)
(* remove a row by its id.                                                     *)
(*                                                                             *)
(* A patch is a sequence of entries.  An `insert` entry has a list of rows, any  *)
(* other entry is one row, an override.  Of a row matters what an edit reads or  *)
(* writes.  The text and its YAML are left out; the tree round-trips.           *)
EXTENDS Naturals, Sequences, FiniteSets, Absent

CONSTANTS
    RowId,      \* ids of rows
    Setting,    \* values of a row's config
    Documents,  \* the patches a user may have written
    MaxEdits    \* bound: edits of one behaviour

VARIABLES
    document,   \* the patch on disk: its entries, or a reason it cannot be edited
    lastEdit    \* history: the edit that was saved last, with how many there were

patchVars == <<document, lastEdit>>

\* id: a plain string, or "computed" for an alias, a tag or none; named: it says which
\* package it loads; disabled: None, "yes", "no" or "computed"; config: None or a value.
Row == [id : RowId \cup {"computed"}, named : BOOLEAN,
        disabled : {None, "yes", "no", "computed"}, config : Setting \cup {None}]
Insert(rows) == [insert |-> TRUE, rows |-> rows]
Override(row) == [insert |-> FALSE, rows |-> <<row>>]
NewRow(id) == [id |-> id, named |-> FALSE, disabled |-> None, config |-> None]

\* A second YAML document, an empty file, a root that is no list, an `insert` that is
\* no list: what an edit refuses.
Unreadable == None

PatchInit == document \in Documents /\ lastEdit = [kind |-> None, count |-> 0]

-----------------------------------------------------------------------------
\* The places of the rows with an id, <<entry, row>>, and their order in the file.
Matches(doc, id) ==
    {m \in UNION {{e} \X DOMAIN doc[e].rows : e \in DOMAIN doc} :
        doc[m[1]].rows[m[2]].id = id}
Before(a, b) == a[1] < b[1] \/ (a[1] = b[1] /\ a[2] < b[2])

Update(doc, places, change(_)) ==
    [e \in DOMAIN doc |-> [doc[e] EXCEPT !.rows =
        [r \in DOMAIN doc[e].rows |->
            IF <<e, r>> \in places THEN change(doc[e].rows[r]) ELSE doc[e].rows[r]]]]

\* Without the rows at some places; an insert that has no row left goes too.
Without(doc, places) ==
    LET Kept(e) == SelectSeq([r \in DOMAIN doc[e].rows |-> <<r, doc[e].rows[r]>>],
                             LAMBDA x : <<e, x[1]>> \notin places)
        Entry(e) == [doc[e] EXCEPT !.rows = [i \in DOMAIN Kept(e) |-> Kept(e)[i][2]]]
    IN SelectSeq([e \in DOMAIN doc |-> Entry(e)], LAMBDA entry : entry.rows # <<>>)

Present(row) == row.disabled # None
Cleared(row) == [row EXCEPT !.disabled = None]
IdOnly(row) == ~row.named /\ row.disabled = None /\ row.config = None

\* The flag goes from every matching row, and an override that only had the flag goes
\* with it.
Enable(doc, id) ==
    LET places == {m \in Matches(doc, id) : Present(doc[m[1]].rows[m[2]])}
        emptied == {m \in places : ~doc[m[1]].insert /\ IdOnly(Cleared(doc[m[1]].rows[m[2]]))}
        cleared == Update(doc, places, Cleared)
    IN SelectSeq([e \in DOMAIN cleared |-> IF <<e, 1>> \in emptied
                                           THEN [cleared[e] EXCEPT !.rows = <<>>]
                                           ELSE cleared[e]],
                 LAMBDA entry : entry.insert \/ entry.rows # <<>>)

\* Every matching row is disabled, or an override is added for a row of another layer.
Disable(doc, id) ==
    IF Matches(doc, id) = {}
    THEN Append(doc, Override([NewRow(id) EXCEPT !.disabled = "yes"]))
    ELSE Update(doc, Matches(doc, id), LAMBDA row : [row EXCEPT !.disabled = "yes"])

\* The row that counts of those with one id.
LastOf(places) == CHOOSE m \in places : \A n \in places : n = m \/ Before(n, m)

\* Slip: a config goes to the first row with the id.
FirstOf(places) == CHOOSE m \in places : \A n \in places : n = m \/ Before(m, n)

\* The matching row a config goes to.
Target(places) == LastOf(places)

\* The whole config of the row that wins is replaced.
SetConfig(doc, id, value) ==
    IF Matches(doc, id) = {}
    THEN Append(doc, Override([NewRow(id) EXCEPT !.config = value]))
    ELSE Update(doc, {Target(Matches(doc, id))}, LAMBDA row : [row EXCEPT !.config = value])

Remove(doc, id) == Without(doc, Matches(doc, id))

\* Enabling and removing need a row.
Editable(doc, kind, id) ==
    doc # Unreadable /\ (kind \in {"enable", "remove"} => Matches(doc, id) # {})

Edited(doc, kind, id, value) ==
    CASE kind = "enable" -> Enable(doc, id)
      [] kind = "disable" -> Disable(doc, id)
      [] kind = "config" -> SetConfig(doc, id, value)
      [] OTHER -> Remove(doc, id)

\* Read, edit and replace in one synchronous call: a refused edit and a failed write
\* leave the file as it was.
ApplyPatch(kind, id, value) ==
    /\ lastEdit.count < MaxEdits
    /\ Editable(document, kind, id)
    /\ document' = Edited(document, kind, id, value)
    /\ lastEdit' = [kind |-> kind, id |-> id, value |-> value, count |-> lastEdit.count + 1]

PatchNext == \E kind \in {"enable", "disable", "config", "remove"}, id \in RowId,
                value \in Setting : ApplyPatch(kind, id, value)
PatchSpec == PatchInit /\ [][PatchNext]_patchVars

-----------------------------------------------------------------------------
(* What DSH makes of a patch: of all rows with one id the last counts as a whole. *)
Effective(doc, id) ==
    IF Matches(doc, id) = {} THEN None
    ELSE LET m == LastOf(Matches(doc, id)) IN doc[m[1]].rows[m[2]]

(* A saved edit means to DSH what its name says, for the row that wins, whatever   *)
(* the file held and whatever edits came before, and every row of another id, its  *)
(* own or one that could not be read, means what it meant.                         *)
EditMeansWhatItSays ==
    [][LET row == Effective(document, lastEdit'.id)
           new == Effective(document', lastEdit'.id) IN
         lastEdit' # lastEdit =>
           /\ CASE lastEdit'.kind = "enable" -> new = None \/ new.disabled = None
                [] lastEdit'.kind = "disable" ->
                      /\ new.disabled = "yes"
                      /\ row # None => new = [row EXCEPT !.disabled = "yes"]
                [] lastEdit'.kind = "config" ->
                      /\ new.config = lastEdit'.value
                      /\ row # None => new = [row EXCEPT !.config = lastEdit'.value]
                [] OTHER -> new = None
           /\ \A id \in RowId \cup {"computed"} :
                 id # lastEdit'.id => Effective(document', id) = Effective(document, id)]_patchVars
=============================================================================
