------------------------------- MODULE PaneRows -------------------------------
(***************************************************************************)
(* The rows of a file pane, their order and their selection:               *)
(* freescp-app's main.rs (compare_entries, resort_pane, PaneSelection and  *)
(* its callers, selected_left_seeds).                                      *)
(*                                                                         *)
(* The selection is kept by row number and the operations take the names   *)
(* those rows have; sorting renumbers them.  An entry's name stands for    *)
(* its place in the order of names.                                        *)
(***************************************************************************)
EXTENDS Integers, Sequences, FiniteSets

CONSTANTS
    RowListings,      \* what a folder may hold: sets of entries
    ClampedAt,     \* the largest size a row can hold
    MaxRowClicks      \* bound on what the user does

VARIABLES
    listed,        \* the rows
    picked,        \* the selected rows
    anchor,        \* the current row, or 0 for none
    column, ascending,
    rowClicks,
    meant,         \* history: the entries the user means to have selected
    origin,        \* history: the entry pointed at last without Shift, or NoEntry
    misled,        \* history: the selection no longer tells the origin
    astray         \* history: a Shift-click was made while it did not

historyVars == <<meant, origin, misled, astray>>
rowVars == <<listed, picked, anchor, column, ascending, rowClicks, historyVars>>

Columns == {"name", "size"}
ParentRow == [name |-> 0, isDir |-> TRUE, size |-> 0]
NoEntry == [name |-> 0, isDir |-> FALSE, size |-> 0]

ASSUME RowsAssumption ==
    /\ MaxRowClicks \in Nat /\ ClampedAt \in Nat
    /\ \A l \in RowListings :
         /\ IsFiniteSet(l)
         /\ \A e \in l : e.name \in Nat \ {0} /\ e.size \in Nat /\ e.isDir \in BOOLEAN
         /\ \A e, f \in l : e.name = f.name => e = f

Clamped(n) == IF n > ClampedAt THEN ClampedAt ELSE n

\* compare_entries: a direction turns the column's order, not the names'.
Before(a, b, c, up) ==
    LET sa == Clamped(a.size)  sb == Clamped(b.size) IN
    IF a = ParentRow \/ b = ParentRow THEN a = ParentRow
    ELSE IF a.isDir # b.isDir THEN a.isDir
    ELSE IF c = "size" /\ sa # sb THEN (sa < sb) = up
    ELSE a.name < b.name
Sorted(entries, c, up) ==
    CHOOSE s \in [1..Cardinality(entries) -> entries] :
        \A i, j \in DOMAIN s : i < j => s[i] # s[j] /\ Before(s[i], s[j], c, up)

HasParent == listed # <<>> /\ listed[1] = ParentRow
IsParent(r) == HasParent /\ r = 1
RowNumbers == DOMAIN listed

\* selected_left_seeds: what an operation of the pane acts on.
Seeds == {listed[r] : r \in {q \in picked : q \in RowNumbers}} \ {ParentRow}

\* reset_pane_selection: nothing is selected, and the first row is current.
FirstRow(l) == IF l = <<>> THEN 0 ELSE 1
EntryAt(l, r) == IF r \in DOMAIN l THEN l[r] ELSE NoEntry

RowsInit ==
    /\ column = "name" /\ ascending = TRUE
    /\ \E l \in RowListings, top \in BOOLEAN :
          listed = Sorted(l \cup (IF top THEN {} ELSE {ParentRow}), "name", TRUE)
    /\ picked = {} /\ anchor = FirstRow(listed)
    /\ rowClicks = 0 /\ meant = {} /\ origin = EntryAt(listed, 1)
    /\ misled = FALSE /\ astray = FALSE

Select(rows, current) ==
    /\ rowClicks < MaxRowClicks /\ rowClicks' = rowClicks + 1
    /\ picked' = rows /\ anchor' = (IF current \in RowNumbers THEN current ELSE 0)
    /\ UNCHANGED <<listed, column, ascending>>
Minus(rows) == {r \in rows : ~IsParent(r)}
Named(rows) == {listed[r] : r \in Minus(rows)}

Span(a, b) == IF a <= b THEN a..b ELSE b..a
Lowest(rows) == CHOOSE r \in rows : \A q \in rows : r <= q
Highest(rows) == CHOOSE r \in rows : \A q \in rows : q <= r

\* The user means these entries, and points at row r; which the selection does
\* not tell if r is at one end of others.
AtEnd(rows, r) == r \in rows /\ rows # {r} /\ r \in {Lowest(rows), Highest(rows)}
Means(entries, r) ==
    meant' = entries /\ origin' = EntryAt(listed, r) /\ misled' = AtEnd(picked', r)

\* A plain click; also what a search or a key jumps to.
ClickRow(r) ==
    /\ r \in RowNumbers /\ Select(Minus({r}), r)
    /\ Means(Named({r}), r) /\ astray' = FALSE

ToggleRow(r) ==
    /\ r \in RowNumbers
    /\ Select(IF IsParent(r) THEN picked ELSE (picked \ {r}) \cup ({r} \ picked), r)
    /\ Means((meant \ Named({r})) \cup (Named({r}) \ meant), r) /\ UNCHANGED astray

\* extend_origin
ExtendOrigin(r) ==
    CASE picked = {} -> IF anchor # 0 THEN anchor ELSE r
      [] picked # {} /\ anchor = Highest(picked) -> Lowest(picked)
      [] picked # {} /\ anchor # Highest(picked) /\ anchor = Lowest(picked) -> Highest(picked)
      [] OTHER -> IF anchor # 0 THEN anchor ELSE Lowest(picked)

\* The user means the rows from the origin to r, whatever the code extends
\* from; a span that meets the parent row does not tell where it began.
ExtendTo(r) ==
    /\ r \in RowNumbers /\ Select(Minus(Span(ExtendOrigin(r), r)), r)
    /\ origin' = IF origin = NoEntry THEN listed[r] ELSE origin
    /\ meant' = Named(Span(CHOOSE q \in RowNumbers : listed[q] = origin', r))
    /\ astray' = misled /\ misled' = (misled \/ ParentRow \in {origin', listed[r]})

SelectAll ==
    /\ Select(Minus(RowNumbers), IF anchor # 0 /\ ~IsParent(anchor) THEN anchor
                           ELSE IF Minus(RowNumbers) = {} THEN 0 ELSE Lowest(Minus(RowNumbers)))
    /\ Means(Named(RowNumbers), anchor') /\ astray' = FALSE

Collapse ==
    /\ Select(IF anchor # 0 THEN Minus({anchor}) ELSE {}, anchor)
    /\ Means(IF anchor # 0 THEN Named({anchor}) ELSE {}, anchor) /\ astray' = FALSE

\* resort_pane: the rows of the names that were selected.  They tell the
\* origin if it is the only one.
Resort(c) ==
    /\ rowClicks < MaxRowClicks /\ rowClicks' = rowClicks + 1
    /\ column' = c /\ ascending' = (IF column = c THEN ~ascending ELSE TRUE)
    /\ IF listed = <<>> THEN UNCHANGED <<listed, picked, anchor>>
       ELSE /\ listed' = Sorted({listed[r] : r \in RowNumbers}, c, ascending')
            /\ picked' = {r \in DOMAIN listed' : listed'[r] \in Seeds}
            /\ anchor' = IF picked' = {} THEN 0 ELSE Lowest(picked')
    /\ misled' = (misled \/ (listed # <<>> /\ Seeds # {origin}))
    /\ UNCHANGED <<meant, origin, astray>>

\* Mutant: a new listing keeps the selected row numbers.
ListAgainKeeps(l) ==
    /\ rowClicks < MaxRowClicks /\ rowClicks' = rowClicks + 1
    /\ listed' = Sorted(l \cup (IF HasParent THEN {ParentRow} ELSE {}), column, ascending)
    /\ UNCHANGED <<picked, anchor, column, ascending, historyVars>>

\* fetch_local_entries, request_remote_reload: a new listing, nothing selected.
ListAgain(l) ==
    /\ rowClicks < MaxRowClicks /\ rowClicks' = rowClicks + 1
    /\ listed' = Sorted(l \cup (IF HasParent THEN {ParentRow} ELSE {}), column, ascending)
    /\ picked' = {} /\ anchor' = FirstRow(listed')
    /\ meant' = {} /\ origin' = EntryAt(listed', 1) /\ misled' = FALSE /\ astray' = FALSE
    /\ UNCHANGED <<column, ascending>>

RowsNext ==
    \/ \E r \in RowNumbers : ClickRow(r) \/ ToggleRow(r) \/ ExtendTo(r)
    \/ SelectAll \/ Collapse
    \/ \E c \in Columns : Resort(c)
    \/ \E l \in RowListings : ListAgain(l)

RowsSpec == RowsInit /\ [][RowsNext]_rowVars

----------------------------------------------------------------------------

\* Every variable has its type.
RowsTypeOK ==
    /\ Named(RowNumbers) \in RowListings
    /\ picked \subseteq Minus(RowNumbers) /\ anchor \in RowNumbers \cup {0}
    /\ column \in Columns /\ ascending \in BOOLEAN
    /\ rowClicks \in 0..MaxRowClicks

\* An operation acts on what the user selected: through clicks, toggles, the
\* spans drawn back and forth from the row pointed at last, and any sorting in
\* between; but for a span drawn while the selection did not tell that row.
\* (main.rs: PaneSelection, resort_pane, selected_left_seeds)
SeedsAreMeant == ~astray => Seeds = meant

\* "select the range from the anchor to the clicked row" (main.rs:1597), and a
\* toggle moves the anchor (main.rs:1595): it does not hold when the row that
\* was added is at an end of the selection, for then the other end is taken.
SpansStartAtAnchor == Seeds = meant
=============================================================================
