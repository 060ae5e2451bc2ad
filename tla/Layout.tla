-------------------------------- MODULE Layout --------------------------------
(***************************************************************************)
(* Where View of src/ui/app.go puts things: the panes of the devices on    *)
(* the terminal, and the buckets of a device on the map of its pane. The   *)
(* sizes are in terminal cells; rows and columns count from 0.             *)
(***************************************************************************)
EXTENDS MapCells

CONSTANTS Devices,        \* how many are watched
          Widths, Heights,              \* of the terminal
          ColumnsAsked,                 \* by -columns or the config file
          MinWidth, MinHeight,          \* of a terminal that is drawn on
          MinPaneWidth, MinPaneHeight,
          HeaderRows,     \* that an error may bring the header to
          HalfBlocks      \* two rows of cells to a terminal row

ASSUME DevicesAssumption == Devices \in Nat \ {0}
ASSUME SizesAssumption ==
  /\ Widths \subseteq Nat /\ Heights \subseteq Nat /\ ColumnsAsked \subseteq Int
  /\ MinPaneWidth \in Nat /\ MinPaneWidth >= 6
  /\ MinPaneHeight \in Nat /\ MinPaneHeight >= 5
  /\ MinWidth \in Nat /\ MinWidth >= MinPaneWidth /\ MinHeight \in Nat
  /\ HeaderRows \subseteq Nat \ {0}
ASSUME MapAssumption == HalfBlocks \in BOOLEAN /\ Buckets \in Nat \ {0}

VARIABLES width, height,  \* Model.width, Model.height
          columns,        \* cfg.Columns, 0 for automatic
          focus,          \* the zoomed device, or -1
          err,            \* Model.err is not nil
          header          \* rows of the header

layoutVars == <<width, height, columns, focus, err, header>>

Init ==
  /\ width \in Widths /\ height \in Heights
  /\ columns \in ColumnsAsked
  /\ focus = -1
  /\ err = FALSE
  /\ header = 1

-----------------------------------------------------------------------------
(* Update *)

Resize(w, h) ==
  /\ width' = w /\ height' = h
  /\ UNCHANGED <<columns, focus, err>>

NextColumns == IF columns >= AtMost(Devices, 4) THEN 0 ELSE columns + 1

KeyLayout ==
  /\ columns' = NextColumns
  /\ UNCHANGED <<width, height, focus, err>>

\* Wrong variant: the key is not compared with the number of devices.
KeyDeviceAny(k) ==
  /\ focus' = IF focus = k THEN -1 ELSE k
  /\ UNCHANGED <<width, height, columns, err>>

\* The keys 1 to 9.
KeyDevice(k) ==
  /\ focus' = IF k >= Devices THEN focus ELSE IF focus = k THEN -1 ELSE k
  /\ UNCHANGED <<width, height, columns, err>>

KeyAll ==
  /\ focus' = -1
  /\ UNCHANGED <<width, height, columns, err>>

\* The keys that change what the header says, and not the layout.
KeyOther == UNCHANGED <<width, height, columns, focus, err>>

ErrMsg(e) ==
  /\ err' = e
  /\ UNCHANGED <<width, height, columns, focus>>

\* The header is a line, but an error may hold newlines, and how many of them
\* are left when it is cut to the width depends on all else in the header.
Header == header' \in IF err' THEN {1} \cup HeaderRows ELSE {1}

Next ==
  /\ \/ \E w \in Widths, h \in Heights : Resize(w, h)
     \/ KeyLayout
     \/ \E k \in 0 .. 8 : KeyDevice(k)
     \/ KeyAll
     \/ KeyOther
     \/ \E e \in BOOLEAN : ErrMsg(e)
  /\ Header

Spec == Init /\ [][Next]_layoutVars

-----------------------------------------------------------------------------
(* View and grid *)

Drawable == width >= MinWidth /\ height >= MinHeight

\* What the header and the footer, which is a row, leave.
Body == IF height - header - 1 < 3 THEN 3 ELSE height - header - 1

\* How many devices are on the screen.
Shown == IF focus \in 0 .. Devices - 1 THEN 1 ELSE Devices

CeilDiv(a, b) == (a + b - 1) \div b

AskedFor(n) == IF columns > 0 THEN columns ELSE IF n <= 2 THEN 1 ELSE 2

\* Wrong variant: the height does not raise the count.
RaisedNever(n, h) == AskedFor(n)

\* Too few columns and the panes are too short ...
Raised(n, h) ==
  LET rows == h \div MinPaneHeight
  IN IF rows >= 1 /\ AskedFor(n) * rows < n THEN CeilDiv(n, rows) ELSE AskedFor(n)

\* ... too many and they are too narrow.
Columns(n, w, h) ==
  LET cols == AtMost(AtMost(Raised(n, h), n), w \div MinPaneWidth)
  IN IF cols < 1 THEN 1 ELSE cols

Cols == Columns(Shown, width, Body)
Rows == CeilDiv(Shown, Cols)

\* Wrong variant: the last column is as wide as the others.
PaneWidthEqual(c) == width \div Cols

\* The last column and the last row take the remainder.
PaneWidth(c) ==
  IF c = Cols - 1 THEN width - (width \div Cols) * (Cols - 1) ELSE width \div Cols
PaneHeight(r) ==
  IF r = Rows - 1 THEN Body - (Body \div Rows) * (Rows - 1) ELSE Body \div Rows

\* The places that have a device.
Places == {p \in (0 .. Rows - 1) \X (0 .. Cols - 1) : p[1] * Cols + p[2] < Shown}

\* The columns and the rows of the terminal's body that a place has.
Across(p) == {p[2] * (width \div Cols) + k : k \in 0 .. PaneWidth(p[2]) - 1}
Down(p)   == {p[1] * (Body \div Rows) + k : k \in 0 .. PaneHeight(p[1]) - 1}

-----------------------------------------------------------------------------
(* pane and renderMap *)

\* A pane without room for its border, two lines and a row of map is left out.
Drawn(p) == PaneWidth(p[2]) - 2 >= 4 /\ PaneHeight(p[1]) - 2 >= 3

MapWidth(p) == PaneWidth(p[2]) - 2
MapRows(p)  == PaneHeight(p[1]) - 4

CellsOf(w, rows) == w * rows * (IF HalfBlocks THEN 2 ELSE 1)

\* The cells drawn at column c of row r: top and bottom, or the one.
CellsAt(w, r, c) ==
  IF HalfBlocks THEN {(2 * r) * w + c, (2 * r + 1) * w + c} ELSE {r * w + c}

-----------------------------------------------------------------------------
(* Properties *)

TypeOK ==
  /\ width \in Widths /\ height \in Heights
  /\ columns \in Int
  /\ focus \in -1 .. Devices - 1
  /\ err \in BOOLEAN /\ header \in {1} \cup HeaderRows

\* The places that grid gives the panes tile the body: every place of it
\* belongs to one pane and one only, but for what is to the right of the last
\* pane of the last row, and no pane reaches out of it, nor, however many
\* rows an error gives the header, over the footer, if it leaves three rows.
PanesTile ==
  Drawable =>
    /\ \A p \in Places : Across(p) \subseteq 0 .. width - 1 /\ Down(p) \subseteq 0 .. Body - 1
    /\ height - header >= 4 =>
         \A p \in Places : \A y \in Down(p) : header + y < height - 1
    /\ \A p, q \in Places :
         p = q \/ Across(p) \cap Across(q) = {} \/ Down(p) \cap Down(q) = {}
    /\ \A r \in 0 .. Rows - 1 :
         LET row == {p \in Places : p[1] = r}
         IN (r < Rows - 1 \/ Cols * Rows = Shown)
              => UNION {Across(p) : p \in row} = 0 .. width - 1
    /\ UNION {Down(p) : p \in Places} = 0 .. Body - 1

\* "Too few columns and the panes are too short to draw, too many and they
\* are too narrow" (line 443): when there is any arrangement of panes of the
\* least size that shows every device, columns finds one, whatever was asked
\* for.
EveryDeviceIsDrawn ==
  (Drawable /\ Shown <= (width \div MinPaneWidth) * (Body \div MinPaneHeight))
    => \A p \in Places : Drawn(p)

\* renderMap, on a map of some size: "every cell is a slice of the address
\* space" (line 566), inside the device and never empty; the cells follow
\* each other from the first bucket to the last without a gap; and the places
\* of the map draw each cell once.
MapIsWhole(w, rows) ==
  LET cells == CellsOf(w, rows)
  IN /\ \A cell \in 0 .. cells - 1 :
          /\ 0 <= First(cell, cells)
          /\ First(cell, cells) < Last(cell, cells)
          /\ Last(cell, cells) <= Buckets
          /\ cell < cells - 1 => /\ First(cell, cells) <= First(cell + 1, cells)
                                 /\ First(cell + 1, cells) <= Last(cell, cells)
     /\ First(0, cells) = 0
     /\ Last(cells - 1, cells) = Buckets
     /\ UNION {CellsAt(w, r, c) : r \in 0 .. rows - 1, c \in 0 .. w - 1}
          = 0 .. cells - 1

\* No bucket is hidden: an I/O anywhere on a device is on its map, in every
\* pane that is drawn.
MapShowsDevice ==
  Drawable => \A p \in Places : Drawn(p) => MapIsWhole(MapWidth(p), MapRows(p))
===============================================================================
