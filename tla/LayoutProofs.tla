----------------------------- MODULE LayoutProofs -----------------------------
(***************************************************************************)
(* That the layout holds for every size of terminal, every number of       *)
(* devices and of buckets, and every number of columns asked for.          *)
(***************************************************************************)
EXTENDS Layout, TLAPS

-----------------------------------------------------------------------------
(* Division *)

LEMMA DivBounds ==
  ASSUME NEW i \in Int, NEW m \in Nat \ {0}
  PROVE  /\ i \div m \in Int
         /\ (i \div m) * m <= i
         /\ i < (i \div m) * m + m
  OBVIOUS

LEMMA ProductMono ==
  ASSUME NEW a \in Int, NEW b \in Int, NEW m \in Nat, a <= b
  PROVE  a * m <= b * m
<1>1. (b - a) * m >= 0
  OBVIOUS
<1>2. b * m = a * m + (b - a) * m
  OBVIOUS
<1> QED
  BY <1>1, <1>2

\* k times m goes into i, so the quotient is k at least.
LEMMA DivAtLeast ==
  ASSUME NEW i \in Int, NEW m \in Nat \ {0}, NEW k \in Int, k * m <= i
  PROVE  k <= i \div m
<1> DEFINE q == i \div m
<1>1. q \in Int /\ q * m <= i /\ i < q * m + m
  BY DivBounds
<1> HIDE DEF q
<1>2. ASSUME q + 1 <= k PROVE FALSE
  <2>1. (q + 1) * m <= k * m
    BY <1>1, <1>2, ProductMono
  <2>2. (q + 1) * m = q * m + m
    BY <1>1
  <2> QED
    BY <1>1, <2>1, <2>2
<1>3. k <= q
  BY <1>1, <1>2
<1> QED
  BY <1>3 DEF q

LEMMA DivAtMost ==
  ASSUME NEW i \in Int, NEW m \in Nat \ {0}, NEW k \in Int, i < (k + 1) * m
  PROVE  i \div m <= k
<1> DEFINE q == i \div m
<1>1. q \in Int /\ q * m <= i
  BY DivBounds
<1> HIDE DEF q
<1>2. ASSUME k + 1 <= q PROVE FALSE
  <2>1. (k + 1) * m <= q * m
    BY <1>1, <1>2, ProductMono
  <2> QED
    BY <1>1, <2>1
<1>3. q <= k
  BY <1>1, <1>2
<1> QED
  BY <1>3 DEF q

LEMMA CeilDivCovers ==
  ASSUME NEW a \in Nat \ {0}, NEW b \in Nat \ {0}
  PROVE  /\ CeilDiv(a, b) \in Nat \ {0}
         /\ CeilDiv(a, b) * b >= a
<1>1. 1 * b <= a + b - 1
  OBVIOUS
<1>2. 1 <= (a + b - 1) \div b
  BY <1>1, DivAtLeast
<1>3. (a + b - 1) \div b \in Int /\ a + b - 1 < ((a + b - 1) \div b) * b + b
  BY DivBounds
<1> DEFINE q == (a + b - 1) \div b
<1>4. q \in Int /\ 1 <= q /\ a + b - 1 < q * b + b
  BY <1>2, <1>3
<1> HIDE DEF q
<1>5. q \in Nat \ {0} /\ q * b >= a
  BY <1>4
<1> QED
  BY <1>5 DEF q, CeilDiv

-----------------------------------------------------------------------------
(* Types *)

\* The zoomed device is one of those watched, or none is zoomed.
THEOREM TypeCorrect == Spec => []TypeOK
<1>1. Init => TypeOK
  <2> SUFFICES ASSUME Init PROVE TypeOK
    OBVIOUS
  <2>1. columns \in Int /\ -1 \in -1 .. Devices - 1
    BY DevicesAssumption, SizesAssumption DEF Init
  <2> QED
    BY <2>1 DEF Init, TypeOK
<1>2. TypeOK /\ [Next]_layoutVars => TypeOK'
  <2> SUFFICES ASSUME TypeOK, [Next]_layoutVars PROVE TypeOK'
    OBVIOUS
  <2> USE DevicesAssumption DEF TypeOK
  <2>0. Header => header' \in {1} \cup HeaderRows
    BY DEF Header
  <2>1. ASSUME NEW w \in Widths, NEW h \in Heights, Resize(w, h), Header PROVE TypeOK'
    BY <2>1, <2>0 DEF Resize
  <2>2. CASE KeyLayout /\ Header
    <3>1. NextColumns \in Int
      BY DEF NextColumns
    <3> QED
      BY <2>2, <2>0, <3>1 DEF KeyLayout
  <2>3. ASSUME NEW k \in 0 .. 8, KeyDevice(k), Header PROVE TypeOK'
    BY <2>3, <2>0 DEF KeyDevice
  <2>4. CASE (KeyAll \/ KeyOther \/ \E e \in BOOLEAN : ErrMsg(e)) /\ Header
    BY <2>4, <2>0 DEF KeyAll, KeyOther, ErrMsg
  <2>5. CASE UNCHANGED layoutVars
    BY <2>5 DEF layoutVars
  <2> QED
    BY <2>1, <2>2, <2>3, <2>4, <2>5 DEF Next
<1> QED
  BY <1>1, <1>2, PTL DEF Spec

\* The sizes that the layout divides up.
LEMMA Sizes ==
  ASSUME TypeOK, Drawable
  PROVE  /\ width \in Nat /\ Body \in Nat /\ Shown \in Nat \ {0}
         /\ width \div MinPaneWidth \in Nat \ {0}
         /\ Body \div MinPaneHeight \in Nat
         /\ (width \div MinPaneWidth) * MinPaneWidth <= width
         /\ (Body \div MinPaneHeight) * MinPaneHeight <= Body
<1>1. /\ width \in Nat /\ height \in Nat /\ Shown \in Nat \ {0}
      /\ header \in Nat /\ width >= MinPaneWidth
  BY DevicesAssumption, SizesAssumption DEF TypeOK, Shown, Drawable
<1>2. Body \in Nat /\ 0 * MinPaneHeight <= Body /\ 1 * MinPaneWidth <= width
  BY <1>1, SizesAssumption DEF Body
<1>3. MinPaneHeight \in Nat \ {0} /\ MinPaneWidth \in Nat \ {0}
  BY SizesAssumption
<1>4. 1 <= width \div MinPaneWidth /\ 0 <= Body \div MinPaneHeight
  BY <1>1, <1>2, <1>3, DivAtLeast
<1>5. /\ width \div MinPaneWidth \in Int /\ Body \div MinPaneHeight \in Int
      /\ (width \div MinPaneWidth) * MinPaneWidth <= width
      /\ (Body \div MinPaneHeight) * MinPaneHeight <= Body
  BY <1>1, <1>2, <1>3, DivBounds
<1> QED
  BY <1>1, <1>2, <1>4, <1>5

LEMMA RaisedType ==
  ASSUME TypeOK, NEW n \in Nat \ {0}, NEW h \in Nat
  PROVE  Raised(n, h) \in Nat \ {0}
<1>1. AskedFor(n) \in Nat \ {0}
  BY DEF AskedFor, TypeOK
<1>2. MinPaneHeight \in Nat \ {0}
  BY SizesAssumption
<1>3. h \div MinPaneHeight \in Int
  BY <1>2, DivBounds
<1>4. CASE h \div MinPaneHeight >= 1 /\ AskedFor(n) * (h \div MinPaneHeight) < n
  <2>1. h \div MinPaneHeight \in Nat \ {0}
    BY <1>3, <1>4
  <2>2. CeilDiv(n, h \div MinPaneHeight) \in Nat \ {0}
    BY <2>1, CeilDivCovers
  <2> QED
    BY <1>4, <2>2 DEF Raised
<1>5. CASE ~(h \div MinPaneHeight >= 1 /\ AskedFor(n) * (h \div MinPaneHeight) < n)
  BY <1>1, <1>5 DEF Raised
<1> QED
  BY <1>4, <1>5

\* How many columns and rows there are.
LEMMA GridSize ==
  ASSUME TypeOK, Drawable
  PROVE  /\ Cols \in Nat \ {0} /\ Rows \in Nat \ {0}
         /\ Cols <= Shown /\ Cols <= width \div MinPaneWidth
         /\ \/ Cols = Raised(Shown, Body)
            \/ Cols = Shown
            \/ Cols = width \div MinPaneWidth
         /\ Cols * Rows >= Shown
<1> DEFINE R == Raised(Shown, Body)
           W == width \div MinPaneWidth
<1>1. R \in Nat \ {0}
  BY Sizes, RaisedType
<1>2. W \in Nat \ {0} /\ Shown \in Nat \ {0}
  BY Sizes
<1>3. Cols = IF AtMost(AtMost(R, Shown), W) < 1 THEN 1 ELSE AtMost(AtMost(R, Shown), W)
  BY DEF Cols, Columns
<1> HIDE DEF R, W
<1>4. /\ Cols \in Nat \ {0} /\ Cols <= Shown /\ Cols <= W
      /\ Cols = R \/ Cols = Shown \/ Cols = W
  BY <1>1, <1>2, <1>3 DEF AtMost
<1>5. Rows \in Nat \ {0} /\ Rows * Cols >= Shown
  BY <1>2, <1>4, CeilDivCovers DEF Rows
<1> QED
  BY <1>4, <1>5 DEF R, W

\* The least width and the least height of a pane.
LEMMA PaneSizes ==
  ASSUME TypeOK, Drawable, NEW p \in Places
  PROVE  /\ PaneWidth(p[2]) \in Int /\ PaneWidth(p[2]) >= width \div Cols
         /\ PaneHeight(p[1]) \in Int /\ PaneHeight(p[1]) >= Body \div Rows
         /\ width \div Cols \in Int /\ Body \div Rows \in Int
<1> DEFINE W == width \div Cols
           H == Body \div Rows
           c == Cols
           r == Rows
<1>1. c \in Nat \ {0} /\ r \in Nat \ {0} /\ width \in Nat /\ Body \in Nat
  BY GridSize, Sizes
<1>2. W \in Int /\ W * c <= width /\ H \in Int /\ H * r <= Body
  BY <1>1, DivBounds
<1>3. /\ PaneWidth(p[2]) = width - W * (c - 1) \/ PaneWidth(p[2]) = W
      /\ PaneHeight(p[1]) = Body - H * (r - 1) \/ PaneHeight(p[1]) = H
  BY DEF PaneWidth, PaneHeight
<1> HIDE DEF W, H, c, r
<1>4. W * (c - 1) = W * c - W /\ H * (r - 1) = H * r - H
  BY <1>1, <1>2
<1>5. /\ W * (c - 1) \in Int /\ H * (r - 1) \in Int
      /\ width - W * (c - 1) >= W /\ Body - H * (r - 1) >= H
  BY <1>1, <1>2, <1>4
<1>6. /\ PaneWidth(p[2]) \in Int /\ PaneWidth(p[2]) >= W
      /\ PaneHeight(p[1]) \in Int /\ PaneHeight(p[1]) >= H
  BY <1>1, <1>2, <1>3, <1>5
<1> QED
  BY <1>2, <1>6 DEF W, H, c, r

-----------------------------------------------------------------------------
(* Every device is drawn *)

\* Where there is room for panes of the least size, there are not too many
\* rows: whichever of the three bounds decided on the columns, they hold the
\* devices in the rows that fit.
LEMMA RowsFit ==
  ASSUME TypeOK, Drawable,
         Shown <= (width \div MinPaneWidth) * (Body \div MinPaneHeight)
  PROVE  Rows <= Body \div MinPaneHeight /\ Body \div MinPaneHeight \in Nat \ {0}
<1> DEFINE W == width \div MinPaneWidth
           H == Body \div MinPaneHeight
           n == Shown
           R == Raised(Shown, Body)
<1>1. W \in Nat \ {0} /\ H \in Nat \ {0} /\ n \in Nat \ {0} /\ n <= W * H
  <2>1. W \in Nat \ {0} /\ H \in Nat /\ n \in Nat \ {0} /\ n <= W * H
    BY Sizes
  <2> HIDE DEF W, H, n
  <2>2. H # 0
    BY <2>1
  <2> QED
    BY <2>1, <2>2
<1>2. R \in Nat \ {0} /\ AskedFor(n) \in Int
  <2>1. R \in Nat \ {0}
    BY Sizes, RaisedType
  <2>2. AskedFor(n) \in Int
    BY DEF AskedFor, TypeOK
  <2> QED
    BY <2>1, <2>2
<1>3. R * H >= n
  <2>1. CASE AskedFor(n) * H < n
    <3>1. R = CeilDiv(n, H)
      BY <1>1, <2>1 DEF Raised
    <3> QED
      BY <1>1, <3>1, CeilDivCovers
  <2>2. CASE ~(AskedFor(n) * H < n)
    <3>1. R = AskedFor(n)
      BY <2>2 DEF Raised
    <3> HIDE DEF H, n
    <3>2. AskedFor(n) * H \in Int
      BY <1>1, <1>2
    <3> QED
      BY <1>1, <1>2, <2>2, <3>1, <3>2
  <2> QED
    BY <2>1, <2>2
<1>4. Cols \in Nat \ {0} /\ (Cols = R \/ Cols = n \/ Cols = W)
  BY GridSize
<1>5. Rows = (n + Cols - 1) \div Cols
  BY DEF Rows, CeilDiv
<1> HIDE DEF W, H, n, R
<1>6. Cols * H >= n
  <2>1. n * H >= n
    <3>1. 1 * n <= H * n
      BY <1>1, ProductMono
    <3> QED
      BY <1>1, <3>1
  <2> QED
    BY <1>1, <1>3, <1>4, <2>1
<1>7. n + Cols - 1 < (H + 1) * Cols
  <2>1. (H + 1) * Cols = Cols * H + Cols
    BY <1>1, <1>4
  <2> QED
    BY <1>1, <1>4, <1>6, <2>1
<1>8. Rows <= H
  BY <1>1, <1>4, <1>5, <1>7, DivAtMost
<1> QED
  BY <1>1, <1>8 DEF H

\* columns keeps every device on the screen, for every terminal on which some
\* arrangement of panes of the least size does.
LEMMA DrawnWhereverPossible ==
  ASSUME TypeOK
  PROVE  EveryDeviceIsDrawn
<1> SUFFICES ASSUME Drawable,
                    Shown <= (width \div MinPaneWidth) * (Body \div MinPaneHeight),
                    NEW p \in Places
             PROVE  Drawn(p)
  BY DEF EveryDeviceIsDrawn
<1> DEFINE W == width \div MinPaneWidth
           H == Body \div MinPaneHeight
<1>1. /\ W \in Nat \ {0} /\ H \in Nat \ {0} /\ width \in Nat /\ Body \in Nat
      /\ W * MinPaneWidth <= width /\ H * MinPaneHeight <= Body
  BY Sizes, RowsFit
<1>2. Cols \in Nat \ {0} /\ Cols <= W /\ Rows \in Nat \ {0} /\ Rows <= H
  BY GridSize, RowsFit
<1> HIDE DEF W, H
<1>3. MinPaneWidth \in Nat /\ MinPaneWidth >= 6 /\ MinPaneHeight \in Nat /\ MinPaneHeight >= 5
  BY SizesAssumption
<1>4. MinPaneWidth <= width \div Cols
  <2>1. Cols * MinPaneWidth <= W * MinPaneWidth
    BY <1>1, <1>2, <1>3, ProductMono
  <2>2. MinPaneWidth * Cols <= width
    BY <1>1, <1>2, <1>3, <2>1
  <2> QED
    BY <1>1, <1>2, <1>3, <2>2, DivAtLeast
<1>5. MinPaneHeight <= Body \div Rows
  <2>1. Rows * MinPaneHeight <= H * MinPaneHeight
    BY <1>1, <1>2, <1>3, ProductMono
  <2>2. MinPaneHeight * Rows <= Body
    BY <1>1, <1>2, <1>3, <2>1
  <2> QED
    BY <1>1, <1>2, <1>3, <2>2, DivAtLeast
<1>6. /\ PaneWidth(p[2]) \in Int /\ PaneWidth(p[2]) >= width \div Cols
      /\ PaneHeight(p[1]) \in Int /\ PaneHeight(p[1]) >= Body \div Rows
      /\ width \div Cols \in Int /\ Body \div Rows \in Int
  BY PaneSizes
<1>7. PaneWidth(p[2]) >= 6 /\ PaneHeight(p[1]) >= 5
  <2> DEFINE a == width \div Cols
             b == Body \div Rows
  <2>1. a \in Int /\ b \in Int /\ MinPaneWidth <= a /\ MinPaneHeight <= b
    BY <1>4, <1>5, <1>6
  <2>2. PaneWidth(p[2]) >= a /\ PaneHeight(p[1]) >= b
    BY <1>6
  <2> HIDE DEF a, b
  <2> QED
    BY <1>3, <1>6, <2>1, <2>2
<1> QED
  BY <1>6, <1>7 DEF Drawn

\* No device is left out that there is room for, at any time of any run.
THEOREM NoDeviceIsLeftOut == Spec => []EveryDeviceIsDrawn
<1>1. TypeOK => EveryDeviceIsDrawn
  BY DrawnWhereverPossible
<1> QED
  BY <1>1, TypeCorrect, PTL

-----------------------------------------------------------------------------
(* The map shows the whole device *)

LEMMA CellsType ==
  ASSUME NEW w \in Nat \ {0}, NEW rows \in Nat \ {0}
  PROVE  CellsOf(w, rows) \in Nat \ {0}
<1>1. w * rows \in Nat \ {0}
  OBVIOUS
<1> QED
  BY <1>1, MapAssumption DEF CellsOf

\* A cell starts at a bucket of the device.
LEMMA FirstInRange ==
  ASSUME NEW cells \in Nat \ {0}, NEW cell \in 0 .. cells - 1
  PROVE  First(cell, cells) \in 0 .. Buckets - 1
<1>1. Buckets \in Nat \ {0}
  BY MapAssumption
<1>2. cell * Buckets \in Nat /\ 0 * cells <= cell * Buckets
  BY <1>1
<1>3. cell * Buckets < ((Buckets - 1) + 1) * cells
  <2>1. (cell + 1) * Buckets <= cells * Buckets
    BY <1>1, ProductMono
  <2>2. (cell + 1) * Buckets = cell * Buckets + Buckets
    BY <1>1
  <2> QED
    BY <1>1, <2>1, <2>2
<1>4. 0 <= First(cell, cells) /\ First(cell, cells) \in Int
  BY <1>2, DivAtLeast, DivBounds DEF First
<1>5. First(cell, cells) <= Buckets - 1
  BY <1>1, <1>2, <1>3, DivAtMost DEF First
<1> QED
  BY <1>1, <1>4, <1>5

LEMMA FirstMono ==
  ASSUME NEW cells \in Nat \ {0}, NEW cell \in Nat
  PROVE  First(cell, cells) <= First(cell + 1, cells)
<1>1. cell * Buckets <= (cell + 1) * Buckets /\ cell * Buckets \in Int
  BY MapAssumption, ProductMono
<1>2. (cell + 1) * Buckets \in Int
  BY MapAssumption
<1> DEFINE q == First(cell, cells)
<1>3. q \in Int /\ q * cells <= cell * Buckets
  BY <1>1, DivBounds DEF First
<1> HIDE DEF q
<1>4. q * cells <= (cell + 1) * Buckets
  BY <1>1, <1>2, <1>3
<1>5. q <= First(cell + 1, cells)
  BY <1>2, <1>3, <1>4, DivAtLeast DEF First
<1> QED
  BY <1>5 DEF q

LEMMA LastAtEnd ==
  ASSUME NEW cells \in Nat \ {0}
  PROVE  First(cells, cells) = Buckets
<1>1. Buckets \in Nat \ {0} /\ cells * Buckets = Buckets * cells /\ cells * Buckets \in Int
  BY MapAssumption
<1>2. Buckets <= (cells * Buckets) \div cells
  BY <1>1, DivAtLeast
<1>3. (cells * Buckets) \div cells <= Buckets
  <2>1. (Buckets + 1) * cells = Buckets * cells + cells
    BY <1>1
  <2> QED
    BY <1>1, <2>1, DivAtMost
<1>4. (cells * Buckets) \div cells \in Int
  BY <1>1, DivBounds
<1> QED
  BY <1>1, <1>2, <1>3, <1>4 DEF First

\* From the second cell on, a cell starts where the one before it ends, or
\* within it.
LEMMA CellsFollow ==
  ASSUME NEW cells \in Nat \ {0}, NEW cell \in 0 .. cells - 1
  PROVE  /\ First(cell, cells) < Last(cell, cells)
         /\ Last(cell, cells) <= Buckets
         /\ Last(cell, cells) \in Int
         /\ First(cell + 1, cells) <= Last(cell, cells)
<1> DEFINE a == First(cell, cells)
           b == First(cell + 1, cells)
<1>1. a \in 0 .. Buckets - 1 /\ Buckets \in Nat \ {0}
  BY FirstInRange, MapAssumption
<1>2. a <= b
  BY FirstMono
<1>3. b \in Int /\ b <= Buckets
  <2>1. CASE cell + 1 \in 0 .. cells - 1
    BY <1>1, <2>1, FirstInRange
  <2>2. CASE cell + 1 = cells
    BY <1>1, <2>2, LastAtEnd
  <2> QED
    BY <2>1, <2>2
<1>4. Last(cell, cells) = AtMost(IF b <= a THEN a + 1 ELSE b, Buckets)
  BY DEF Last, First
<1> HIDE DEF a, b
<1>5. /\ a < Last(cell, cells) /\ Last(cell, cells) <= Buckets
      /\ Last(cell, cells) \in Int /\ b <= Last(cell, cells)
  BY <1>1, <1>2, <1>3, <1>4 DEF AtMost
<1> QED
  BY <1>5 DEF a, b

\* A number below w times rows is r times w plus c, with r a row, c a column.
LEMMA RowAndColumn ==
  ASSUME NEW w \in Nat \ {0}, NEW rows \in Nat, NEW k \in 0 .. w * rows - 1
  PROVE  \E r \in 0 .. rows - 1, c \in 0 .. w - 1 : k = r * w + c
<1> DEFINE r == k \div w
           c == k - r * w
<1>0. w * rows \in Nat /\ k \in Nat /\ k < w * rows
  OBVIOUS
<1>1. r \in Int /\ r * w <= k /\ k < r * w + w
  BY <1>0, DivBounds
<1>2. 0 <= r
  BY <1>0, DivAtLeast
<1>3. r <= rows - 1
  <2>1. k < ((rows - 1) + 1) * w
    BY <1>0
  <2> QED
    BY <1>0, <2>1, DivAtMost
<1> HIDE DEF r
<1>4. c \in 0 .. w - 1 /\ k = r * w + c /\ r \in 0 .. rows - 1
  BY <1>0, <1>1, <1>2, <1>3
<1> QED
  BY <1>4

LEMMA PlaceInRange ==
  ASSUME NEW w \in Nat \ {0}, NEW rows \in Nat,
         NEW r \in 0 .. rows - 1, NEW c \in 0 .. w - 1
  PROVE  r * w + c \in 0 .. w * rows - 1
<1>1. (r + 1) * w <= rows * w
  BY ProductMono
<1>2. (r + 1) * w = r * w + w /\ r * w \in Nat /\ rows * w = w * rows
  OBVIOUS
<1> QED
  BY <1>1, <1>2

\* The places of the map draw every cell.
LEMMA PlacesDrawCells ==
  ASSUME NEW w \in Nat \ {0}, NEW rows \in Nat \ {0}
  PROVE  UNION {CellsAt(w, r, c) : r \in 0 .. rows - 1, c \in 0 .. w - 1}
           = 0 .. CellsOf(w, rows) - 1
<1> DEFINE drawn == UNION {CellsAt(w, r, c) : r \in 0 .. rows - 1, c \in 0 .. w - 1}
<1>1. CASE HalfBlocks
  <2>1. CellsOf(w, rows) = w * (2 * rows)
    <3>1. w * rows * 2 = w * (2 * rows)
      OBVIOUS
    <3> QED
      BY <1>1, <3>1 DEF CellsOf
  <2>2. ASSUME NEW k \in drawn PROVE k \in 0 .. CellsOf(w, rows) - 1
    <3>1. PICK r \in 0 .. rows - 1, c \in 0 .. w - 1 :
            k = (2 * r) * w + c \/ k = (2 * r + 1) * w + c
      BY <1>1, <2>2 DEF CellsAt
    <3>2. /\ 2 * r \in 0 .. 2 * rows - 1 /\ 2 * r + 1 \in 0 .. 2 * rows - 1
          /\ 2 * rows \in Nat
      OBVIOUS
    <3>3. /\ (2 * r) * w + c \in 0 .. w * (2 * rows) - 1
          /\ (2 * r + 1) * w + c \in 0 .. w * (2 * rows) - 1
      BY <3>2, PlaceInRange
    <3> QED
      BY <2>1, <3>1, <3>3
  <2>3. ASSUME NEW k \in 0 .. CellsOf(w, rows) - 1 PROVE k \in drawn
    <3>1. 2 * rows \in Nat /\ k \in 0 .. w * (2 * rows) - 1
      BY <2>1, <2>3
    <3>2. PICK s \in 0 .. 2 * rows - 1, c \in 0 .. w - 1 : k = s * w + c
      BY <3>1, RowAndColumn
    <3>3. \E r \in 0 .. rows - 1 : s = 2 * r \/ s = 2 * r + 1
      <4>1. s \div 2 \in 0 .. rows - 1 /\ (s = 2 * (s \div 2) \/ s = 2 * (s \div 2) + 1)
        BY <3>2
      <4> QED
        BY <4>1
    <3>4. PICK r \in 0 .. rows - 1 : s = 2 * r \/ s = 2 * r + 1
      BY <3>3
    <3>5. k \in CellsAt(w, r, c)
      BY <1>1, <3>2, <3>4 DEF CellsAt
    <3> QED
      BY <3>2, <3>4, <3>5
  <2> QED
    BY <2>2, <2>3
<1>2. CASE ~HalfBlocks
  <2>1. CellsOf(w, rows) = w * rows
    BY <1>2 DEF CellsOf
  <2>2. ASSUME NEW k \in drawn PROVE k \in 0 .. CellsOf(w, rows) - 1
    <3>1. PICK r \in 0 .. rows - 1, c \in 0 .. w - 1 : k = r * w + c
      BY <1>2, <2>2 DEF CellsAt
    <3> QED
      BY <2>1, <3>1, PlaceInRange
  <2>3. ASSUME NEW k \in 0 .. CellsOf(w, rows) - 1 PROVE k \in drawn
    <3>0. rows \in Nat /\ k \in 0 .. w * rows - 1
      BY <2>1, <2>3
    <3>1. PICK r \in 0 .. rows - 1, c \in 0 .. w - 1 : k = r * w + c
      BY <3>0, RowAndColumn
    <3>2. k \in CellsAt(w, r, c)
      BY <1>2, <3>1 DEF CellsAt
    <3> QED
      BY <3>2
  <2> QED
    BY <2>2, <2>3
<1> QED
  BY <1>1, <1>2

\* renderMap's arithmetic is right on a map of any size, whether it has more
\* cells than the device has buckets or fewer.
THEOREM MapsAreWhole ==
  ASSUME NEW w \in Nat \ {0}, NEW rows \in Nat \ {0}
  PROVE  MapIsWhole(w, rows)
<1> DEFINE cells == CellsOf(w, rows)
<1>1. cells \in Nat \ {0}
  BY CellsType
<1>2. UNION {CellsAt(w, r, c) : r \in 0 .. rows - 1, c \in 0 .. w - 1} = 0 .. cells - 1
  BY PlacesDrawCells
<1>3. MapIsWhole(w, rows) <=>
        /\ \A cell \in 0 .. cells - 1 :
             /\ 0 <= First(cell, cells)
             /\ First(cell, cells) < Last(cell, cells)
             /\ Last(cell, cells) <= Buckets
             /\ cell < cells - 1 => /\ First(cell, cells) <= First(cell + 1, cells)
                                    /\ First(cell + 1, cells) <= Last(cell, cells)
        /\ First(0, cells) = 0
        /\ Last(cells - 1, cells) = Buckets
        /\ UNION {CellsAt(w, r, c) : r \in 0 .. rows - 1, c \in 0 .. w - 1}
             = 0 .. cells - 1
  BY DEF MapIsWhole
<1> HIDE DEF cells
<1>4. ASSUME NEW cell \in 0 .. cells - 1
      PROVE  /\ 0 <= First(cell, cells)
             /\ First(cell, cells) < Last(cell, cells)
             /\ Last(cell, cells) <= Buckets
             /\ First(cell, cells) <= First(cell + 1, cells)
             /\ First(cell + 1, cells) <= Last(cell, cells)
  BY <1>1, FirstInRange, FirstMono, CellsFollow
<1>5. First(0, cells) = 0
  <2>1. First(0, cells) = 0 \div cells
    BY MapAssumption DEF First
  <2>2. 0 * cells <= 0 /\ 0 < (0 + 1) * cells /\ 0 \div cells \in Int
    BY <1>1, DivBounds
  <2>3. 0 <= 0 \div cells /\ 0 \div cells <= 0
    BY <1>1, <2>2, DivAtLeast, DivAtMost
  <2> QED
    BY <2>1, <2>2, <2>3
<1>6. Last(cells - 1, cells) = Buckets
  <2>1. cells - 1 \in 0 .. cells - 1 /\ (cells - 1) + 1 = cells
    BY <1>1
  <2>2. First(cells, cells) <= Last(cells - 1, cells)
    BY <1>1, <2>1, CellsFollow
  <2>3. Last(cells - 1, cells) <= Buckets /\ Last(cells - 1, cells) \in Int
    BY <1>1, <2>1, CellsFollow
  <2> QED
    BY <1>1, <2>2, <2>3, LastAtEnd, MapAssumption
<1> QED
  BY <1>2, <1>3, <1>4, <1>5, <1>6

\* In every pane that is drawn, at any time of any run, no bucket of the
\* device is hidden.
THEOREM NoBucketIsHidden == Spec => []MapShowsDevice
<1>1. TypeOK => MapShowsDevice
  <2> SUFFICES ASSUME TypeOK, Drawable, NEW p \in Places, Drawn(p)
               PROVE  MapIsWhole(MapWidth(p), MapRows(p))
    BY DEF MapShowsDevice
  <2>1. PaneWidth(p[2]) \in Int /\ PaneHeight(p[1]) \in Int
    BY PaneSizes
  <2>2. MapWidth(p) \in Nat \ {0} /\ MapRows(p) \in Nat \ {0}
    BY <2>1 DEF Drawn, MapWidth, MapRows
  <2> QED
    BY <2>2, MapsAreWhole
<1> QED
  BY <1>1, TypeCorrect, PTL

-----------------------------------------------------------------------------
(* The panes tile the body *)

\* A length cut into n bands of one size, with the remainder in the last.
BandSize(total, n, i) ==
  IF i = n - 1 THEN total - (total \div n) * (n - 1) ELSE total \div n
Band(total, n, i) == {i * (total \div n) + k : k \in 0 .. BandSize(total, n, i) - 1}

\* A place of a band, without the remainder in the way.
LEMMA InBand ==
  ASSUME NEW total \in Nat, NEW n \in Nat \ {0}, NEW i \in 0 .. n - 1, NEW x
  PROVE  x \in Band(total, n, i) <=>
           /\ x \in Nat
           /\ i * (total \div n) <= x
           /\ IF i = n - 1 THEN x < total ELSE x < (i + 1) * (total \div n)
<1> DEFINE W == total \div n
<1>1. W \in Nat /\ W * n <= total
  <2>1. 0 * n <= total
    OBVIOUS
  <2> QED
    BY <2>1, DivBounds, DivAtLeast
<1>2. /\ BandSize(total, n, i) = IF i = n - 1 THEN total - W * (n - 1) ELSE W
      /\ Band(total, n, i) = {i * W + k : k \in 0 .. BandSize(total, n, i) - 1}
  BY DEF BandSize, Band
<1> HIDE DEF W
<1>3. (i + 1) * W = i * W + W /\ i * W \in Nat /\ W * (n - 1) \in Nat
  BY <1>1
<1>4. i = n - 1 => i * W = W * (n - 1)
  BY <1>1
<1>5. x \in Band(total, n, i) <=>
        x \in Nat /\ i * W <= x /\ x < i * W + BandSize(total, n, i)
  <2>1. BandSize(total, n, i) \in Int
    BY <1>1, <1>2, <1>3
  <2>2. ASSUME x \in Band(total, n, i)
        PROVE  x \in Nat /\ i * W <= x /\ x < i * W + BandSize(total, n, i)
    BY <1>2, <1>3, <2>1, <2>2
  <2>3. ASSUME x \in Nat, i * W <= x, x < i * W + BandSize(total, n, i)
        PROVE  x \in Band(total, n, i)
    <3>1. x - i * W \in 0 .. BandSize(total, n, i) - 1 /\ x = i * W + (x - i * W)
      BY <1>3, <2>1, <2>3
    <3> QED
      BY <1>2, <3>1
  <2> QED
    BY <2>2, <2>3
<1>6. x \in Nat => /\ i = n - 1 => (x < i * W + BandSize(total, n, i) <=> x < total)
                   /\ i # n - 1 => (x < i * W + BandSize(total, n, i) <=> x < (i + 1) * W)
  BY <1>1, <1>2, <1>3, <1>4
<1>7. x \in Band(total, n, i) <=>
        /\ x \in Nat
        /\ i * W <= x
        /\ IF i = n - 1 THEN x < total ELSE x < (i + 1) * W
  BY <1>5, <1>6
<1> QED
  BY <1>7 DEF W

LEMMA BandsInside ==
  ASSUME NEW total \in Nat, NEW n \in Nat \ {0}, NEW i \in 0 .. n - 1
  PROVE  Band(total, n, i) \subseteq 0 .. total - 1
<1> SUFFICES ASSUME NEW x \in Band(total, n, i) PROVE x \in 0 .. total - 1
  OBVIOUS
<1> DEFINE W == total \div n
<1>1. W \in Nat /\ W * n <= total
  <2>1. 0 * n <= total
    OBVIOUS
  <2> QED
    BY <2>1, DivBounds, DivAtLeast
<1>2. x \in Nat /\ (x < total \/ (i # n - 1 /\ x < (i + 1) * W))
  BY InBand
<1> HIDE DEF W
<1>3. (i + 1) * W <= n * W /\ n * W = W * n /\ (i + 1) * W \in Int
  BY <1>1, ProductMono
<1> QED
  BY <1>1, <1>2, <1>3

LEMMA BandsDisjoint ==
  ASSUME NEW total \in Nat, NEW n \in Nat \ {0},
         NEW i \in 0 .. n - 1, NEW j \in 0 .. n - 1, i # j
  PROVE  Band(total, n, i) \cap Band(total, n, j) = {}
<1> DEFINE W == total \div n
<1>1. W \in Nat
  <2>1. 0 * n <= total
    OBVIOUS
  <2> QED
    BY <2>1, DivBounds, DivAtLeast
<1>2. ASSUME NEW a \in 0 .. n - 1, NEW b \in 0 .. n - 1, a < b,
             NEW x \in Band(total, n, a), x \in Band(total, n, b)
      PROVE  FALSE
  <2>1. x \in Nat /\ x < (a + 1) * W
    BY <1>2, InBand
  <2>2. b * W <= x
    BY <1>2, InBand
  <2> HIDE DEF W
  <2>3. (a + 1) * W <= b * W /\ (a + 1) * W \in Int /\ b * W \in Int
    BY <1>1, <1>2, ProductMono
  <2> QED
    BY <2>1, <2>2, <2>3
<1> QED
  BY <1>2

LEMMA BandsCover ==
  ASSUME NEW total \in Nat, NEW n \in Nat \ {0}, NEW x \in 0 .. total - 1
  PROVE  \E i \in 0 .. n - 1 : x \in Band(total, n, i)
<1> DEFINE W == total \div n
<1>1. W \in Nat /\ W * n <= total
  <2>1. 0 * n <= total
    OBVIOUS
  <2> QED
    BY <2>1, DivBounds, DivAtLeast
<1>2. CASE (n - 1) * W <= x
  <2> DEFINE i == n - 1
  <2>1. i \in 0 .. n - 1 /\ i * W <= x /\ x \in Nat /\ x < total /\ i = n - 1
    BY <1>2
  <2> HIDE DEF i
  <2>2. x \in Band(total, n, i)
    BY <2>1, InBand
  <2> QED
    BY <2>1, <2>2
<1>3. CASE ~((n - 1) * W <= x)
  <2> HIDE DEF W
  <2>1. x < (n - 1) * W /\ W # 0
    BY <1>1, <1>3
  <2> DEFINE i == x \div W
  <2>2. W \in Nat \ {0}
    BY <1>1, <2>1
  <2>3. i \in Int /\ i * W <= x /\ x < i * W + W
    BY <2>2, DivBounds
  <2>4. 0 <= i
    BY <2>2, DivAtLeast
  <2>5. i <= n - 2
    <3>1. x < ((n - 2) + 1) * W
      BY <2>1
    <3> QED
      BY <2>2, <3>1, DivAtMost
  <2> HIDE DEF i
  <2>6. i \in 0 .. n - 1 /\ i # n - 1 /\ (i + 1) * W = i * W + W
    BY <2>2, <2>3, <2>4, <2>5
  <2>7. x \in Nat /\ i * W <= x /\ x < (i + 1) * W
    BY <2>3, <2>6
  <2>8. x \in Band(total, n, i)
    BY <2>6, <2>7, InBand DEF W
  <2> QED
    BY <2>6, <2>8
<1> QED
  BY <1>2, <1>3

\* A place is a pair of bands.
LEMMA PlaceBands ==
  ASSUME NEW p \in Places
  PROVE  /\ p[1] \in 0 .. Rows - 1 /\ p[2] \in 0 .. Cols - 1
         /\ p = <<p[1], p[2]>>
         /\ Across(p) = Band(width, Cols, p[2])
         /\ Down(p) = Band(Body, Rows, p[1])
<1>1. p[1] \in 0 .. Rows - 1 /\ p[2] \in 0 .. Cols - 1 /\ p = <<p[1], p[2]>>
  BY DEF Places
<1>2. PaneWidth(p[2]) = BandSize(width, Cols, p[2])
  BY DEF PaneWidth, BandSize
<1>3. PaneHeight(p[1]) = BandSize(Body, Rows, p[1])
  BY DEF PaneHeight, BandSize
<1> QED
  BY <1>1, <1>2, <1>3 DEF Across, Down, Band

\* Every row but the last has a device in each column, and the last has one
\* in its first.
LEMMA RowsAreFull ==
  ASSUME TypeOK, Drawable, NEW r \in 0 .. Rows - 1, NEW c \in 0 .. Cols - 1,
         r < Rows - 1 \/ Cols * Rows = Shown \/ c = 0
  PROVE  <<r, c>> \in Places
<1> DEFINE n == Shown
           C == Cols
           R == Rows
<1>1. C \in Nat \ {0} /\ R \in Nat \ {0} /\ n \in Nat \ {0}
  BY GridSize, Sizes
<1>2. (R - 1) * C < n
  <2>1. R = (n + C - 1) \div C
    BY DEF Rows, CeilDiv
  <2> HIDE DEF n, C, R
  <2>2. R * C <= n + C - 1
    BY <1>1, <2>1, DivBounds
  <2>3. (R - 1) * C = R * C - C /\ R * C \in Int
    BY <1>1
  <2> QED
    BY <1>1, <2>2, <2>3
<1>3. r * C + c < n
  <2>0. r \in 0 .. R - 1 /\ c \in 0 .. C - 1 /\ (r < R - 1 \/ C * R = n \/ c = 0)
    OBVIOUS
  <2> HIDE DEF n, C, R
  <2>1. r * C \in Nat /\ (R - 1) * C \in Nat /\ (r + 1) * C = r * C + C
    BY <1>1, <2>0
  <2>2. CASE r < R - 1
    <3>1. (r + 1) * C <= (R - 1) * C
      BY <1>1, <2>0, <2>2, ProductMono
    <3> QED
      BY <1>1, <1>2, <2>0, <2>1, <3>1
  <2>3. CASE C * R = n
    <3>1. (r + 1) * C <= R * C /\ R * C = C * R
      BY <1>1, <2>0, ProductMono
    <3> QED
      BY <1>1, <2>0, <2>1, <2>3, <3>1
  <2>4. CASE c = 0
    <3>1. r * C <= (R - 1) * C
      BY <1>1, <2>0, ProductMono
    <3> QED
      BY <1>1, <1>2, <2>0, <2>1, <2>4, <3>1
  <2> QED
    BY <2>0, <2>2, <2>3, <2>4
<1> QED
  BY <1>3 DEF Places

LEMMA Tiled ==
  ASSUME TypeOK
  PROVE  PanesTile
<1> SUFFICES ASSUME Drawable PROVE PanesTile
  BY DEF PanesTile
<1>1. /\ Cols \in Nat \ {0} /\ Rows \in Nat \ {0}
      /\ width \in Nat /\ Body \in Nat
  BY GridSize, Sizes
<1>2. ASSUME NEW p \in Places
      PROVE  Across(p) \subseteq 0 .. width - 1 /\ Down(p) \subseteq 0 .. Body - 1
  BY <1>1, PlaceBands, BandsInside
<1>3. ASSUME NEW p \in Places, NEW q \in Places
      PROVE  p = q \/ Across(p) \cap Across(q) = {} \/ Down(p) \cap Down(q) = {}
  <2>1. /\ p[1] \in 0 .. Rows - 1 /\ p[2] \in 0 .. Cols - 1 /\ p = <<p[1], p[2]>>
        /\ q[1] \in 0 .. Rows - 1 /\ q[2] \in 0 .. Cols - 1 /\ q = <<q[1], q[2]>>
        /\ Across(p) = Band(width, Cols, p[2]) /\ Down(p) = Band(Body, Rows, p[1])
        /\ Across(q) = Band(width, Cols, q[2]) /\ Down(q) = Band(Body, Rows, q[1])
    BY PlaceBands
  <2>2. CASE p[1] # q[1]
    BY <1>1, <2>1, <2>2, BandsDisjoint
  <2>3. CASE p[2] # q[2]
    BY <1>1, <2>1, <2>3, BandsDisjoint
  <2> QED
    BY <2>1, <2>2, <2>3
<1>4. ASSUME NEW r \in 0 .. Rows - 1, r < Rows - 1 \/ Cols * Rows = Shown
      PROVE  UNION {Across(p) : p \in {p \in Places : p[1] = r}} = 0 .. width - 1
  <2>1. ASSUME NEW x \in 0 .. width - 1
        PROVE  \E p \in Places : p[1] = r /\ x \in Across(p)
    <3>1. PICK c \in 0 .. Cols - 1 : x \in Band(width, Cols, c)
      BY <1>1, BandsCover
    <3>2. <<r, c>> \in Places
      BY <1>4, RowsAreFull
    <3>3. x \in Across(<<r, c>>)
      BY <3>1, <3>2, PlaceBands
    <3> QED
      BY <3>2, <3>3
  <2> QED
    BY <1>2, <2>1
<1>5. UNION {Down(p) : p \in Places} = 0 .. Body - 1
  <2>1. ASSUME NEW y \in 0 .. Body - 1 PROVE \E p \in Places : y \in Down(p)
    <3>1. PICK r \in 0 .. Rows - 1 : y \in Band(Body, Rows, r)
      BY <1>1, BandsCover
    <3>2. 0 \in 0 .. Cols - 1
      BY <1>1
    <3>3. <<r, 0>> \in Places
      BY <3>2, RowsAreFull
    <3>4. y \in Down(<<r, 0>>)
      BY <3>1, <3>3, PlaceBands
    <3> QED
      BY <3>3, <3>4
  <2> QED
    BY <1>2, <2>1
<1>6. ASSUME height - header >= 4, NEW p \in Places, NEW y \in Down(p)
      PROVE  header + y < height - 1
  <2>1. header \in Nat /\ height \in Nat
    BY SizesAssumption DEF TypeOK
  <2>2. Body = height - header - 1 /\ Body \in Int
    BY <1>6, <2>1 DEF Body
  <2>3. y \in 0 .. Body - 1
    BY <1>2, <1>6
  <2> QED
    BY <2>1, <2>2, <2>3
<1> QED
  BY <1>2, <1>3, <1>4, <1>5, <1>6 DEF PanesTile

\* The panes share the body out without a gap or an overlap, at any time.
THEOREM PanesFillTheBody == Spec => []PanesTile
<1>1. TypeOK => PanesTile
  BY Tiled
<1> QED
  BY <1>1, TypeCorrect, PTL
===============================================================================
