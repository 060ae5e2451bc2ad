------------------------------ MODULE MainProofs ------------------------------
(* Proofs about the two halves of main.go. Options: which value an option  *)
(* ends up with, and how many warnings there are, for any config file,     *)
(* flags and terminal. Startup: what runs is what was asked for, for any   *)
(* machine and any command line.                                           *)
EXTENDS Options, Startup, FiniteSetTheorems, FunctionTheorems, SequenceTheorems,
        WellFoundedInduction, TLAPS

-----------------------------------------------------------------------------
(* The options: the inductive invariant *)

\* What the file has said so far about an option.
FromFile(o) ==
  IF LinesFor(o) # {} THEN Stored(o, file[Max(LinesFor(o))].value) ELSE Default[o]

\* Word flags that main's loop has come to.
Applied == (Words \cap DOMAIN given) \ todo

\* Before main writes its flags, an option is as the file has it, or as a word
\* flag that was applied after it.
Settled(o) ==
  IF o \in Applied /\ given[o] \in Good THEN given[o] ELSE FromFile(o)

BadLines == {k \in DOMAIN file : ~Accepts(file[k].key, file[k].value)}
BadWords == {o \in Applied : given[o] \notin Good}

\* "The last good line" is a line.
LastLines ==
  \A o \in Option : LinesFor(o) # {} =>
    \E m \in LinesFor(o) : \A k \in LinesFor(o) : m >= k

Fitted ==
  cfg["buckets"] =
    IF ~Given("buckets") /\ FromFile("buckets") = Default["buckets"]
    THEN AutoBuckets(cfg["half"])
    ELSE Decided("buckets")

ValuesInv ==
  /\ step # "run" => \A o \in Option \ {"interval"} : cfg[o] = Settled(o)
  /\ step = "run" => /\ \A o \in Option \ {"interval", "buckets"} : cfg[o] = Decided(o)
                     /\ Fitted

TodoInv ==
  /\ todo \subseteq Words \cap DOMAIN given
  /\ step = "file" => todo = Words \cap DOMAIN given
  /\ step \in {"direct", "run"} => todo = {}

FileInv ==
  /\ file \in Seq(Lines \cup {Unreadable})
  /\ Len(file) <= MaxLines
  /\ LastLines

Counted ==
  /\ IsFiniteSet(BadLines) /\ IsFiniteSet(BadWords)
  /\ warnings = Cardinality(BadLines) + Cardinality(BadWords)

OptInv ==
  /\ step \in {"file", "words", "direct", "run"}
  /\ given \in CommandLines /\ terminal \in Terminals
  /\ DOMAIN cfg = Option
  /\ cfg["buckets"] \in MinBuckets .. MaxBuckets
  /\ TodoInv /\ FileInv /\ ValuesInv /\ Counted

-----------------------------------------------------------------------------
(* The options: operators *)

\* A set of numbers that is not empty has a smallest one: the number that the
\* fewest are below, by inclusion.
LEMMA SmallestNumber ==
  ASSUME NEW S \in SUBSET Nat, S # {}
  PROVE  Min(S) \in S /\ \A v \in S : Min(S) <= v
<1>1. PICK x \in S : TRUE
  OBVIOUS
<1> DEFINE N == 0 .. x
           Below(v) == {w \in S : w <= v}
           T == {Below(v) : v \in S \cap N}
<1>2. IsWellFoundedOn(StrictSubsetOrdering(N), SUBSET N)
  <2>1. IsFiniteSet(N)
    BY FS_Interval
  <2> QED
    BY <2>1, FS_StrictSubsetOrderingWellFounded, FS_FiniteSubsetsOfFinite
<1>3. T \subseteq SUBSET N /\ x \in N
  <2>1. x \in Nat
    OBVIOUS
  <2>2. x \in N /\ \A v \in N, w \in Nat : w <= v => w \in N
    BY <2>1
  <2> HIDE DEF N
  <2>3. \A v \in S \cap N : Below(v) \subseteq N
    BY <2>2
  <2> QED
    BY <2>2, <2>3
<1>4. PICK U \in T : \A V \in T : ~ (<<V, U>> \in StrictSubsetOrdering(N))
  <2>1. T # {}
    <3>1. x \in S \cap N
      BY <1>3
    <3> HIDE DEF N, Below
    <3> QED
      BY <3>1
  <2> HIDE DEF T
  <2>2. \E U \in T : \A V \in T : ~ (<<V, U>> \in StrictSubsetOrdering(N))
    BY <1>2, <1>3, <2>1, WFMin
  <2> QED
    BY <2>2
<1>5. PICK v \in S \cap N : U = Below(v)
  BY <1>4
<1>6. ASSUME NEW w \in S, w < v PROVE FALSE
  <2>1. w \in N /\ (\A y \in S : y <= w => y <= v) /\ v <= v /\ ~(v <= w)
    BY <1>6
  <2> HIDE DEF N
  <2>2. Below(w) \subseteq Below(v) /\ v \in Below(v) /\ v \notin Below(w)
    BY <2>1
  <2>3. Below(w) \in T /\ Below(v) \in T
    BY <2>1
  <2> HIDE DEF Below, T
  <2>4. <<Below(w), U>> \in StrictSubsetOrdering(N)
    BY <1>3, <1>5, <2>2, <2>3 DEF StrictSubsetOrdering
  <2> QED
    BY <1>4, <2>3, <2>4
<1>7. \E y \in S : \A w \in S : y <= w
  BY <1>5, <1>6
<1> QED
  BY <1>7 DEF Min

\* Clamping gives a number of buckets there may be, and takes away only what
\* is too much.
LEMMA Clamped ==
  ASSUME NEW n \in Int
  PROVE  /\ ClampBuckets(n) \in MinBuckets .. MaxBuckets
         /\ ClampBuckets(n) >= n \/ ClampBuckets(n) = MaxBuckets
<1>1. MinBuckets \in Nat /\ MaxBuckets \in Nat /\ MinBuckets <= MaxBuckets
  BY BucketsAssumption
<1> QED
  BY <1>1 DEF ClampBuckets

\* Unless there is no terminal, the slices are as many as the cells at least,
\* or as many as there may be.
LEMMA AutoFits ==
  ASSUME terminal \in Terminals, NEW half
  PROVE  /\ AutoBuckets(half) \in MinBuckets .. MaxBuckets
         /\ \/ terminal.width * terminal.height = 0
            \/ AutoBuckets(half) >= Cells(half)
            \/ AutoBuckets(half) = MaxBuckets
<1>1. /\ terminal.width \in Nat /\ terminal.height \in Nat
      /\ MinBuckets \in Nat /\ MaxBuckets \in Nat /\ MinBuckets <= MaxBuckets
      /\ Default["buckets"] \in MinBuckets .. MaxBuckets
  BY TerminalsAssumption, BucketsAssumption
<1>2. CASE terminal.width = 0 \/ terminal.height = 0
  <2>1. AutoBuckets(half) = Default["buckets"] /\ terminal.width * terminal.height = 0
    BY <1>1, <1>2 DEF AutoBuckets
  <2> QED
    BY <1>1, <2>1
<1>3. CASE ~(terminal.width = 0 \/ terminal.height = 0)
  <2> DEFINE c == Cells(half)
             S == {p \in PowersOf2 : p >= c} \cup {MaxBuckets}
  <2>1. c \in Nat
    <3>1. \A n \in Nat : n * 2 \in Nat /\ n * 1 \in Nat
      OBVIOUS
    <3>2. terminal.width * terminal.height \in Nat
      BY <1>1
    <3> QED
      BY <3>1, <3>2 DEF Cells
  <2>2. S \in SUBSET Nat /\ S # {}
    <3>1. \A k \in 0 .. 20 : 2 ^ k \in Int
      OBVIOUS
    <3>2. PowersOf2 \subseteq Int
      BY <3>1 DEF PowersOf2
    <3> HIDE DEF c
    <3>3. \A p \in Int : p >= c => p \in Nat
      BY <2>1
    <3>4. {p \in PowersOf2 : p >= c} \subseteq Nat
      BY <3>2, <3>3
    <3> QED
      BY <1>1, <3>4
  <2>3. AutoBuckets(half) = ClampBuckets(Min(S))
    BY <1>3 DEF AutoBuckets
  <2>4. \A p \in S : p >= c \/ p = MaxBuckets
    OBVIOUS
  <2> HIDE DEF S, c
  <2>5. Min(S) \in Nat /\ (Min(S) >= c \/ Min(S) = MaxBuckets)
    BY <2>2, <2>4, SmallestNumber
  <2>6. /\ AutoBuckets(half) \in MinBuckets .. MaxBuckets
        /\ AutoBuckets(half) >= Min(S) \/ AutoBuckets(half) = MaxBuckets
    BY <2>3, <2>5, Clamped
  <2> QED
    BY <1>1, <2>1, <2>5, <2>6 DEF c
<1> QED
  BY <1>2, <1>3

\* An accepted value is for an option, and never a number of buckets out of
\* range.
LEMMA AcceptedOption ==
  \A key, value : Accepts(key, value) => key \in Option
BY DEF Accepts, Option

LEMMA FileLines ==
  ASSUME FileInv
  PROVE  /\ Len(file) \in Nat /\ DOMAIN file = 1 .. Len(file)
         /\ \A k \in 1 .. Len(file) : file[k] \in Lines \cup {Unreadable}
BY LenProperties, ElementOfSeq DEF FileInv

LEMMA FromFileBuckets ==
  ASSUME FileInv, LinesFor("buckets") # {}
  PROVE  FromFile("buckets") \in MinBuckets .. MaxBuckets
<1> DEFINE m == Max(LinesFor("buckets"))
<1>1. m \in LinesFor("buckets")
  <2>1. "buckets" \in Option
    BY DEF Option
  <2> QED
    BY <2>1 DEF FileInv, LastLines, Max
<1>2. file[m].key = "buckets" /\ file[m] \in Lines \cup {Unreadable}
  BY <1>1, FileLines DEF LinesFor
<1>3. file[m] \in Lines
  BY <1>2 DEF Unreadable
<1>4. file[m].value \in Int
  <2>1. Accepts("buckets", file[m].value)
    BY <1>1 DEF LinesFor
  <2>2. file[m].value # Garbage
    BY <2>1 DEF Accepts, Words
  <2> QED
    BY <1>2, <1>3, <2>2, BucketsAssumption
<1>5. FromFile("buckets") = ClampBuckets(file[m].value)
  BY DEF FromFile, Stored
<1> QED
  BY <1>4, <1>5, Clamped

-----------------------------------------------------------------------------
(* The options: steps *)

LEMMA OptInit == Init => OptInv
<1> SUFFICES ASSUME Init PROVE OptInv
  OBVIOUS
<1>1. /\ step = "file" /\ given \in CommandLines /\ terminal \in Terminals
      /\ file = <<>> /\ todo = Words \cap DOMAIN given /\ warnings = 0
      /\ cfg = IF Given("interval")
               THEN [Default EXCEPT !["interval"] = given["interval"]]
               ELSE Default
  BY DEF Init
<1>2. DOMAIN file = {} /\ file \in Seq(Lines \cup {Unreadable}) /\ Len(file) = 0
  BY <1>1
<1>3. Applied = {} /\ BadLines = {} /\ BadWords = {} /\ \A o : LinesFor(o) = {}
  BY <1>1, <1>2 DEF Applied, BadLines, BadWords, LinesFor
<1>4. /\ DOMAIN cfg = Option
      /\ \A o \in Option \ {"interval"} : cfg[o] = Default[o]
  BY <1>1, DefaultAssumption
<1>5. cfg["buckets"] \in MinBuckets .. MaxBuckets
  <2>1. "buckets" \in Option \ {"interval"}
    BY DEF Option
  <2> QED
    BY <1>4, <2>1, BucketsAssumption
<1>6. Counted
  BY <1>1, <1>3, FS_EmptySet DEF Counted
<1>7. ValuesInv
  BY <1>1, <1>3, <1>4 DEF ValuesInv, Settled, FromFile
<1>8. FileInv /\ TodoInv
  BY <1>1, <1>2, <1>3, MaxLinesAssumption DEF FileInv, LastLines, TodoInv
<1> QED
  BY <1>1, <1>4, <1>5, <1>6, <1>7, <1>8 DEF OptInv

\* One more line decides its own option, if it is good, and no other.
LEMMA OneLineMore ==
  ASSUME FileInv, Len(file) < MaxLines, NEW line \in Lines \cup {Unreadable},
         file' = Append(file, line)
  PROVE  /\ FileInv'
         /\ \A o \in Option :
              FromFile(o)' = IF line.key = o /\ Accepts(o, line.value)
                             THEN Stored(o, line.value) ELSE FromFile(o)
         /\ BadLines' = IF Accepts(line.key, line.value)
                        THEN BadLines ELSE BadLines \cup {Len(file) + 1}
         /\ Len(file) + 1 \notin BadLines
<1> DEFINE n == Len(file) + 1
<1>1. Len(file) \in Nat /\ DOMAIN file = 1 .. Len(file) /\ MaxLines \in Nat
  BY FileLines, MaxLinesAssumption
<1>2. /\ file' \in Seq(Lines \cup {Unreadable}) /\ Len(file') = n
      /\ DOMAIN file' = (DOMAIN file) \cup {n}
      /\ \A k \in DOMAIN file : file'[k] = file[k]
      /\ file'[n] = line
  <2>1. file \in Seq(Lines \cup {Unreadable})
    BY DEF FileInv
  <2>2. 1 .. n = (1 .. Len(file)) \cup {n}
    BY <1>1
  <2> DEFINE S == Lines \cup {Unreadable}
  <2>3. file \in Seq(S) /\ line \in S
    BY <2>1
  <2> HIDE DEF S
  <2>4. /\ Append(file, line) \in Seq(S) /\ Len(Append(file, line)) = n
        /\ \A k \in 1 .. Len(file) : Append(file, line)[k] = file[k]
        /\ Append(file, line)[n] = line
        /\ DOMAIN Append(file, line) = 1 .. n
    BY <2>3, AppendProperties, LenProperties
  <2> QED
    BY <1>1, <2>2, <2>4 DEF S
<1>3. n \notin DOMAIN file /\ n \in Nat /\ \A k \in DOMAIN file : n >= k /\ ~(k >= n)
  BY <1>1
<1> HIDE DEF n
<1>4. ASSUME NEW o
      PROVE  LinesFor(o)' = LinesFor(o) \cup
               (IF line.key = o /\ Accepts(o, line.value) THEN {n} ELSE {})
  BY <1>2, <1>3 DEF LinesFor
<1>5. \A o : LinesFor(o) \subseteq DOMAIN file
  BY DEF LinesFor
<1>6. ASSUME NEW o \in Option, line.key = o, Accepts(o, line.value)
      PROVE  /\ FromFile(o)' = Stored(o, line.value)
             /\ \E m \in LinesFor(o)' : \A k \in LinesFor(o)' : m >= k
  <2>1. LinesFor(o)' = LinesFor(o) \cup {n}
    BY <1>4, <1>6
  <2>2. n \in LinesFor(o)' /\ \A k \in LinesFor(o)' : n >= k
    BY <1>3, <1>5, <2>1
  <2>3. \A m \in LinesFor(o)' : m >= n => m = n
    BY <1>3, <1>5, <2>1
  <2>4. Max(LinesFor(o)') = n
    BY <2>2, <2>3 DEF Max
  <2> QED
    BY <1>2, <2>2, <2>4 DEF FromFile
<1>7. ASSUME NEW o \in Option, ~(line.key = o /\ Accepts(o, line.value))
      PROVE  /\ FromFile(o)' = FromFile(o)
             /\ LinesFor(o)' = LinesFor(o)
  <2>1. LinesFor(o)' = LinesFor(o)
    BY <1>4, <1>7
  <2>2. LinesFor(o) # {} => Max(LinesFor(o)) \in LinesFor(o)
    BY DEF FileInv, LastLines, Max
  <2>3. LinesFor(o) # {} => file'[Max(LinesFor(o))] = file[Max(LinesFor(o))]
    BY <1>2, <1>5, <2>2
  <2> QED
    BY <2>1, <2>3 DEF FromFile
<1>8. LastLines'
  BY <1>6, <1>7 DEF FileInv, LastLines
<1>9. FileInv'
  <2>1. Len(file') <= MaxLines
    BY <1>1, <1>2 DEF n
  <2> QED
    BY <1>2, <1>8, <2>1 DEF FileInv
<1>10. /\ BadLines' = IF Accepts(line.key, line.value) THEN BadLines ELSE BadLines \cup {n}
       /\ n \notin BadLines
  BY <1>2, <1>3 DEF BadLines
<1> QED
  BY <1>6, <1>7, <1>9, <1>10 DEF n

LEMMA OneMoreBad ==
  ASSUME NEW S, IsFiniteSet(S), NEW x, x \notin S
  PROVE  IsFiniteSet(S \cup {x}) /\ Cardinality(S \cup {x}) = Cardinality(S) + 1
         /\ Cardinality(S) \in Nat
BY FS_AddElement, FS_CardinalityType

LEMMA LoadLineInv ==
  ASSUME OptInv, NEW line \in Lines, LoadLine(line) PROVE OptInv'
<1>1. /\ step = "file" /\ Len(file) < MaxLines /\ file' = Append(file, line)
      /\ UNCHANGED <<step, given, terminal, todo>>
      /\ IF Accepts(line.key, line.value)
         THEN /\ cfg' = [cfg EXCEPT ![line.key] = Stored(line.key, line.value)]
              /\ warnings' = warnings
         ELSE cfg' = cfg /\ warnings' = warnings + 1
  BY DEF LoadLine, SetOption, Rejected, Warned
<1>2. /\ FileInv'
      /\ \A o \in Option :
           FromFile(o)' = IF line.key = o /\ Accepts(o, line.value)
                          THEN Stored(o, line.value) ELSE FromFile(o)
      /\ BadLines' = IF Accepts(line.key, line.value)
                     THEN BadLines ELSE BadLines \cup {Len(file) + 1}
      /\ Len(file) + 1 \notin BadLines
  BY <1>1, OneLineMore DEF OptInv
<1>3. Applied = {} /\ Applied' = {} /\ BadWords' = BadWords
  BY <1>1 DEF OptInv, TodoInv, Applied, BadWords
<1>4. DOMAIN cfg = Option /\ DOMAIN cfg' = Option
  BY <1>1 DEF OptInv
<1>5. \A o \in Option \ {"interval"} : cfg[o] = FromFile(o)
  BY <1>1, <1>3 DEF OptInv, ValuesInv, Settled
<1>6. \A o \in Option \ {"interval"} : cfg'[o] = FromFile(o)'
  BY <1>1, <1>2, <1>4, <1>5
<1>7. ValuesInv'
  BY <1>1, <1>3, <1>6 DEF ValuesInv, Settled
<1>8. Counted'
  <2>1. CASE Accepts(line.key, line.value)
    BY <1>1, <1>2, <1>3, <2>1 DEF OptInv, Counted
  <2>2. CASE ~Accepts(line.key, line.value)
    <3>1. IsFiniteSet(BadLines) /\ IsFiniteSet(BadWords)
          /\ warnings = Cardinality(BadLines) + Cardinality(BadWords)
      BY DEF OptInv, Counted
    <3>2. /\ IsFiniteSet(BadLines') /\ Cardinality(BadLines') = Cardinality(BadLines) + 1
          /\ Cardinality(BadLines) \in Nat /\ Cardinality(BadWords) \in Nat
      BY <1>2, <2>2, <3>1, OneMoreBad, FS_CardinalityType
    <3>3. warnings' = Cardinality(BadLines') + Cardinality(BadWords')
      BY <1>1, <1>3, <2>2, <3>1, <3>2
    <3> QED
      BY <1>3, <3>1, <3>2, <3>3 DEF Counted
  <2> QED
    BY <2>1, <2>2
<1>9. cfg'["buckets"] \in MinBuckets .. MaxBuckets
  <2>1. ASSUME line.key = "buckets", Accepts(line.key, line.value)
        PROVE  Stored(line.key, line.value) \in MinBuckets .. MaxBuckets
    <3>0. line.value # Garbage
      BY <2>1 DEF Accepts, Words
    <3>1. line.value \in Int
      BY <2>1, <3>0, BucketsAssumption
    <3>2. Stored(line.key, line.value) = ClampBuckets(line.value)
      BY <2>1 DEF Stored
    <3> QED
      BY <3>1, <3>2, Clamped
  <2>2. "buckets" \in Option /\ cfg["buckets"] \in MinBuckets .. MaxBuckets
    BY DEF Option, OptInv
  <2> QED
    BY <1>1, <1>4, <2>1, <2>2
<1>10. TodoInv'
  BY <1>1 DEF OptInv, TodoInv
<1> QED
  BY <1>1, <1>2, <1>4, <1>7, <1>8, <1>9, <1>10 DEF OptInv

\* A file that does not open is one line that is no option.
LEMMA CannotOpenInv ==
  ASSUME OptInv, CannotOpen PROVE OptInv'
<1>1. /\ step = "file" /\ file = <<>> /\ file' = <<Unreadable>> /\ step' = "words"
      /\ UNCHANGED <<given, terminal, cfg, todo>> /\ warnings' = warnings + 1
  BY DEF CannotOpen
<1>2. ~Accepts(Unreadable.key, Unreadable.value)
  BY DEF Unreadable, Accepts, Words
<1>3. \A o \in Option : Unreadable.key # o
  BY DEF Unreadable, Option, Words
<1>4. Len(file) = 0 /\ Len(file) < MaxLines /\ file' = Append(file, Unreadable)
  BY <1>1, MaxLinesAssumption
<1>5. /\ FileInv'
      /\ \A o \in Option : FromFile(o)' = FromFile(o)
      /\ BadLines' = BadLines \cup {Len(file) + 1}
      /\ Len(file) + 1 \notin BadLines
  <2>1. Unreadable \in Lines \cup {Unreadable} /\ FileInv
    BY DEF OptInv
  <2> QED
    BY <1>2, <1>3, <1>4, <2>1, OneLineMore
<1>6. Applied = {} /\ Applied' = {} /\ BadWords' = BadWords
  BY <1>1 DEF OptInv, TodoInv, Applied, BadWords
<1>7. ValuesInv'
  BY <1>1, <1>5, <1>6 DEF OptInv, ValuesInv, Settled
<1>8. Counted'
  <2>1. IsFiniteSet(BadLines) /\ IsFiniteSet(BadWords)
        /\ warnings = Cardinality(BadLines) + Cardinality(BadWords)
    BY DEF OptInv, Counted
  <2>2. /\ IsFiniteSet(BadLines') /\ Cardinality(BadLines') = Cardinality(BadLines) + 1
        /\ Cardinality(BadLines) \in Nat /\ Cardinality(BadWords) \in Nat
    BY <1>5, <2>1, OneMoreBad, FS_CardinalityType
  <2>3. warnings' = Cardinality(BadLines') + Cardinality(BadWords')
    BY <1>1, <1>6, <2>1, <2>2
  <2> QED
    BY <1>6, <2>1, <2>2, <2>3 DEF Counted
<1>9. TodoInv'
  BY <1>1 DEF OptInv, TodoInv
<1> QED
  BY <1>1, <1>5, <1>7, <1>8, <1>9 DEF OptInv

\* Steps that only move main on.
LEMMA MoveOnInv ==
  ASSUME OptInv, EndOfFile \/ EndOfWords PROVE OptInv'
<1>1. /\ UNCHANGED <<given, terminal, file, cfg, todo, warnings>>
      /\ \/ step = "file" /\ step' = "words"
         \/ step = "words" /\ step' = "direct" /\ todo = {}
  BY DEF EndOfFile, EndOfWords
<1>2. TodoInv'
  BY <1>1 DEF OptInv, TodoInv
<1>3. FileInv' /\ Counted'
  BY <1>1 DEF OptInv, FileInv, LastLines, LinesFor, Counted, BadLines, BadWords, Applied
<1>4. ValuesInv'
  BY <1>1 DEF OptInv, ValuesInv, Settled, FromFile, LinesFor, Applied
<1> QED
  BY <1>1, <1>2, <1>3, <1>4 DEF OptInv

LEMMA SetWordInv ==
  ASSUME OptInv, NEW o \in Words, SetWord(o) PROVE OptInv'
<1>1. /\ o \in Words /\ o \in Option /\ o # "buckets"
      /\ Accepts(o, given[o]) <=> given[o] \in Good
      /\ Stored(o, given[o]) = given[o]
  BY DEF Words, Option, Accepts, Stored
<1>2. /\ step = "words" /\ o \in todo /\ todo' = todo \ {o}
      /\ UNCHANGED <<step, given, terminal, file>>
      /\ IF given[o] \in Good
         THEN cfg' = [cfg EXCEPT ![o] = given[o]] /\ warnings' = warnings
         ELSE cfg' = cfg /\ warnings' = warnings + 1
  BY <1>1 DEF SetWord, SetOption, Rejected, Warned
<1>3. o \notin Applied /\ Applied' = Applied \cup {o}
  BY <1>2 DEF OptInv, TodoInv, Applied
<1>4. TodoInv'
  BY <1>2 DEF OptInv, TodoInv
<1>5. FileInv' /\ BadLines' = BadLines /\ \A p : FromFile(p)' = FromFile(p)
  BY <1>2 DEF OptInv, FileInv, LastLines, LinesFor, BadLines, FromFile
<1>6. DOMAIN cfg = Option /\ DOMAIN cfg' = Option
  BY <1>2 DEF OptInv
<1>7. \A p \in Option \ {"interval"} : cfg'[p] = Settled(p)'
  <2>1. ASSUME NEW p \in Option \ {"interval"} PROVE cfg'[p] = Settled(p)'
    <3>1. cfg[p] = Settled(p)
      BY <1>2 DEF OptInv, ValuesInv
    <3>2. given' = given /\ FromFile(p)' = FromFile(p)
      BY <1>2, <1>5
    <3>3. CASE p = o
      BY <1>2, <1>3, <1>6, <3>1, <3>2, <3>3 DEF Settled
    <3>4. CASE p # o
      <4>1. cfg'[p] = cfg[p]
        BY <1>2, <1>6, <3>4
      <4>2. Settled(p)' = Settled(p)
        BY <1>3, <3>2, <3>4 DEF Settled
      <4> QED
        BY <3>1, <4>1, <4>2
    <3> QED
      BY <3>3, <3>4
  <2> QED
    BY <2>1
<1>8. ValuesInv'
  BY <1>2, <1>7 DEF ValuesInv
<1>9. Counted'
  <2>1. IsFiniteSet(BadLines) /\ IsFiniteSet(BadWords)
        /\ warnings = Cardinality(BadLines) + Cardinality(BadWords)
    BY DEF OptInv, Counted
  <2>2. CASE given[o] \in Good
    <3>1. BadWords' = BadWords /\ warnings' = warnings
      BY <1>2, <1>3, <2>2 DEF BadWords
    <3> QED
      BY <1>5, <2>1, <3>1 DEF Counted
  <2>3. CASE given[o] \notin Good
    <3>1. BadWords' = BadWords \cup {o} /\ o \notin BadWords /\ warnings' = warnings + 1
      BY <1>2, <1>3, <2>3 DEF BadWords
    <3>2. /\ IsFiniteSet(BadWords') /\ Cardinality(BadWords') = Cardinality(BadWords) + 1
          /\ Cardinality(BadLines) \in Nat /\ Cardinality(BadWords) \in Nat
      BY <2>1, <3>1, OneMoreBad, FS_CardinalityType
    <3>3. warnings' = Cardinality(BadLines') + Cardinality(BadWords')
      BY <1>5, <2>1, <3>1, <3>2
    <3> QED
      BY <1>5, <2>1, <3>2, <3>3 DEF Counted
  <2> QED
    BY <2>2, <2>3
<1>10. cfg'["buckets"] = cfg["buckets"]
  BY <1>1, <1>2, <1>6 DEF Option
<1> QED
  BY <1>2, <1>4, <1>5, <1>6, <1>8, <1>9, <1>10 DEF OptInv

\* When the words are done, the flags main writes complete what was decided.
LEMMA FlagsDecide ==
  ASSUME OptInv, step = "direct"
  PROVE  \A o \in Option \ {"interval"} : WithFlags[o] = Decided(o)
<1>1. Applied = Words \cap DOMAIN given
  BY DEF OptInv, TodoInv, Applied
<1>2. ASSUME NEW o \in Option \ {"interval"} PROVE WithFlags[o] = Decided(o)
  <2>1. WithFlags[o] = IF o \in Direct /\ Given(o) THEN Stored(o, given[o]) ELSE cfg[o]
    BY DEF WithFlags
  <2>2. cfg[o] = Settled(o)
    BY DEF OptInv, ValuesInv
  <2>3. CASE o \in Words
    <3>1. o \notin Direct /\ Stored(o, given[o]) = given[o]
      BY <2>3 DEF Words, Direct, Stored
    <3> QED
      BY <1>1, <2>1, <2>2, <2>3, <3>1 DEF Settled, FromFile, Decided, Given
  <2>4. CASE o \notin Words
    <3>1. o \in Direct
      BY <2>4 DEF Option, Direct
    <3>2. Settled(o) = FromFile(o)
      BY <1>1, <2>4 DEF Settled
    <3> QED
      BY <2>1, <2>2, <2>4, <3>1, <3>2 DEF FromFile, Decided
  <2> QED
    BY <2>3, <2>4
<1> QED
  BY <1>2

LEMMA SetDirectInv ==
  ASSUME OptInv, SetDirect PROVE OptInv'
<1>1. /\ step = "direct" /\ step' = "run"
      /\ UNCHANGED <<given, terminal, file, todo, warnings>>
      /\ cfg' = IF ~Given("buckets") /\ WithFlags["buckets"] = Default["buckets"]
                THEN [WithFlags EXCEPT !["buckets"] = AutoBuckets(Half)]
                ELSE WithFlags
  BY DEF SetDirect
<1>2. \A o \in Option \ {"interval"} : WithFlags[o] = Decided(o)
  BY <1>1, FlagsDecide
<1>3. DOMAIN WithFlags = Option /\ DOMAIN cfg' = Option
  BY <1>1 DEF WithFlags
<1>4. /\ "buckets" \in Option \ {"interval"} /\ "half" \in Option \ {"interval"}
      /\ "half" # "buckets" /\ "buckets" \in Direct /\ "buckets" \notin Words
  BY DEF Option, Direct, Words
<1>5. \A o \in Option \ {"interval", "buckets"} : cfg'[o] = Decided(o)
  BY <1>1, <1>2, <1>3
<1>6. cfg'["half"] = Half
  BY <1>2, <1>4, <1>5 DEF Half
<1>7. ~Given("buckets") => Decided("buckets") = FromFile("buckets")
  BY DEF Decided, FromFile
<1>8. cfg'["buckets"] =
        IF ~Given("buckets") /\ FromFile("buckets") = Default["buckets"]
        THEN AutoBuckets(cfg'["half"])
        ELSE Decided("buckets")
  BY <1>1, <1>2, <1>3, <1>4, <1>6, <1>7
<1>9. /\ \A o : FromFile(o)' = FromFile(o) /\ Decided(o)' = Decided(o)
      /\ Given("buckets")' = Given("buckets")
  BY <1>1 DEF FromFile, LinesFor, Decided, Given
<1>10. AutoBuckets(cfg["half"])' = AutoBuckets(cfg'["half"])
  BY <1>1 DEF AutoBuckets, Cells
<1>11. ValuesInv'
  <2>1. Fitted'
    BY <1>8, <1>9, <1>10 DEF Fitted
  <2> QED
    BY <1>1, <1>5, <1>9, <2>1 DEF ValuesInv
<1>12. cfg'["buckets"] \in MinBuckets .. MaxBuckets
  <2>1. AutoBuckets(cfg'["half"]) \in MinBuckets .. MaxBuckets
    BY AutoFits DEF OptInv
  <2>2. Decided("buckets") \in MinBuckets .. MaxBuckets
    <3>1. CASE Given("buckets")
      <4>1. given["buckets"] \in Int
        BY <3>1, BucketsAssumption DEF Given, OptInv
      <4>2. Decided("buckets") = ClampBuckets(given["buckets"])
        BY <1>4, <3>1 DEF Decided, Stored
      <4> QED
        BY <4>1, <4>2, Clamped
    <3>2. CASE ~Given("buckets")
      BY <1>7, <3>2, FromFileBuckets, BucketsAssumption DEF OptInv, FromFile
    <3> QED
      BY <3>1, <3>2
  <2> QED
    BY <1>8, <2>1, <2>2
<1>13. TodoInv' /\ FileInv' /\ Counted'
  BY <1>1 DEF OptInv, TodoInv, FileInv, LastLines, LinesFor, Counted, BadLines, BadWords,
     Applied
<1> QED
  BY <1>1, <1>3, <1>11, <1>12, <1>13 DEF OptInv

LEMMA StandStillInv ==
  ASSUME OptInv, UNCHANGED optVars PROVE OptInv'
BY DEF OptInv, optVars, TodoInv, FileInv, LastLines, LinesFor, ValuesInv, Settled, FromFile,
   Applied, Fitted, Given, Decided, AutoBuckets, Cells, Counted, BadLines, BadWords

LEMMA OptInvariant == Spec => []OptInv
<1>1. Init => OptInv
  BY OptInit
<1>2. OptInv /\ [Next]_optVars => OptInv'
  <2> SUFFICES ASSUME OptInv, [Next]_optVars PROVE OptInv'
    OBVIOUS
  <2>1. ASSUME NEW line \in Lines, LoadLine(line) PROVE OptInv'
    BY <2>1, LoadLineInv
  <2>2. CASE CannotOpen
    BY <2>2, CannotOpenInv
  <2>3. CASE EndOfFile \/ EndOfWords
    BY <2>3, MoveOnInv
  <2>4. ASSUME NEW o \in Words, SetWord(o) PROVE OptInv'
    BY <2>4, SetWordInv
  <2>5. CASE SetDirect
    BY <2>5, SetDirectInv
  <2>6. CASE Running \/ UNCHANGED optVars
    BY <2>6, StandStillInv DEF Running
  <2> QED
    BY <2>1, <2>2, <2>3, <2>4, <2>5, <2>6 DEF Next
<1> QED
  BY <1>1, <1>2, PTL DEF Spec

-----------------------------------------------------------------------------
(* The options: theorems *)

\* Every option has a value, the slices are a number there may be, and there
\* are never more warnings than lines of the file and words on the command
\* line.
THEOREM TypeCorrect == Spec => []TypeOK
<1>1. OptInv => TypeOK
  <2> SUFFICES ASSUME OptInv PROVE TypeOK
    OBVIOUS
  <2>1. /\ Len(file) \in Nat /\ DOMAIN file = 1 .. Len(file)
        /\ \A k \in 1 .. Len(file) : file[k] \in Lines \cup {Unreadable}
        /\ Len(file) <= MaxLines /\ MaxLines \in Nat
    BY FileLines, MaxLinesAssumption DEF OptInv, FileInv
  <2>2. Cardinality(BadLines) \in Nat /\ Cardinality(BadLines) <= Len(file)
    <3>1. 1 \in Int /\ Len(file) \in Int /\ 1 <= Len(file) + 1
          /\ Len(file) - 1 + 1 = Len(file)
      BY <2>1
    <3>2. /\ IsFiniteSet(1 .. Len(file))
          /\ Cardinality(1 .. Len(file)) =
               IF 1 > Len(file) THEN 0 ELSE Len(file) - 1 + 1
      BY <3>1, FS_Interval
    <3>3. Cardinality(1 .. Len(file)) = Len(file)
      BY <2>1, <3>2
    <3>4. BadLines \subseteq 1 .. Len(file)
      BY <2>1 DEF BadLines
    <3> QED
      BY <3>2, <3>3, <3>4, FS_Subset, FS_CardinalityType
  <2>3. /\ Cardinality(BadWords) \in Nat /\ Cardinality(Words) \in Nat
        /\ Cardinality(BadWords) <= Cardinality(Words)
    <3>1. IsFiniteSet(Words)
      <4>1. IsFiniteSet({"color"} \cup {"scale"})
        BY FS_Singleton, FS_Union
      <4>2. IsFiniteSet({"thresholds"} \cup {"source"})
        BY FS_Singleton, FS_Union
      <4>3. Words = ({"color"} \cup {"scale"}) \cup ({"thresholds"} \cup {"source"})
        BY DEF Words
      <4> QED
        BY <4>1, <4>2, <4>3, FS_Union
    <3>2. BadWords \subseteq Words
      BY DEF BadWords, Applied
    <3> QED
      BY <3>1, <3>2, FS_Subset, FS_CardinalityType
  <2>4. warnings \in 0 .. MaxLines + Cardinality(Words)
    <3>1. warnings = Cardinality(BadLines) + Cardinality(BadWords)
      BY DEF OptInv, Counted
    <3> QED
      BY <2>1, <2>2, <2>3, <3>1
  <2> QED
    BY <2>1, <2>4 DEF OptInv, TodoInv, TypeOK
<1> QED
  BY <1>1, OptInvariant, PTL

\* A flag beats the file, a later good line beats an earlier one, and a bad
\* line or flag takes nothing away: for every file, in every order of the loop
\* over the word flags.
THEOREM FlagsBeatFile == Spec => []FlagThenFileThenDefault
<1>1. OptInv => FlagThenFileThenDefault
  BY DEF OptInv, ValuesInv, FlagThenFileThenDefault
<1> QED
  BY <1>1, OptInvariant, PTL

\* When main runs, every bad line and every bad word flag has made one warning.
THEOREM EveryMistakeOnce == Spec => []OneWarningEach
<1>1. OptInv => OneWarningEach
  <2> SUFFICES ASSUME OptInv, step = "run" PROVE
        warnings = Cardinality({k \in DOMAIN file : ~Accepts(file[k].key, file[k].value)})
                 + Cardinality({o \in Words \cap DOMAIN given : given[o] \notin Good})
    BY DEF OneWarningEach
  <2>1. Applied = Words \cap DOMAIN given
    BY DEF OptInv, TodoInv, Applied
  <2> QED
    BY <2>1 DEF OptInv, Counted, BadLines, BadWords
<1> QED
  BY <1>1, OptInvariant, PTL

\* The slices are as many as were asked for (unless that is 0), or enough for the half blocks that
\* were decided in the end, for a terminal of any size.
THEOREM SlicesSuffice == Spec => []SlicesFitScreen
<1>1. OptInv => SlicesFitScreen
  <2> SUFFICES ASSUME OptInv, step = "run", ~ZeroAsked PROVE
        IF Given("buckets") \/ Decided("buckets") # Default["buckets"]
        THEN cfg["buckets"] = Decided("buckets")
        ELSE \/ terminal.width * terminal.height = 0
             \/ cfg["buckets"] >= Cells(cfg["half"])
             \/ cfg["buckets"] = MaxBuckets
    BY DEF SlicesFitScreen
  <2>1. Fitted
    BY DEF OptInv, ValuesInv
  <2>2. ~Given("buckets") => Decided("buckets") = FromFile("buckets")
    BY DEF Decided, FromFile
  <2>3. \/ terminal.width * terminal.height = 0
        \/ AutoBuckets(cfg["half"]) >= Cells(cfg["half"])
        \/ AutoBuckets(cfg["half"]) = MaxBuckets
    BY AutoFits DEF OptInv
  <2> QED
    BY <2>1, <2>2, <2>3 DEF Fitted
<1> QED
  BY <1>1, OptInvariant, PTL

-----------------------------------------------------------------------------
(* Startup: sorting and picking *)

\* Every two members of S are in order; below[x] are those before x.
Chain(S, below) ==
  /\ below \in [S -> SUBSET S]
  /\ \A x \in S : x \notin below[x]
  /\ \A x, y \in S : x = y \/ x \in below[y] \/ y \in below[x]
  /\ \A x, y \in S : x \in below[y] => below[x] \subseteq below[y]

\* nth[i] is one that has i - 1 before it, if there is one.
Ranked(S, below, nth) ==
  /\ nth = [i \in 1 .. Cardinality(S) |-> nth[i]]
  /\ \A i \in 1 .. Cardinality(S) :
       (\E x \in S : Cardinality(below[x]) = i - 1)
         => nth[i] \in S /\ Cardinality(below[nth[i]]) = i - 1

\* In a finite chain there is exactly one member that has a given number of
\* others before it.
LEMMA Ranks ==
  ASSUME NEW S, IsFiniteSet(S), NEW below, Chain(S, below), NEW nth, Ranked(S, below, nth)
  PROVE  /\ Cardinality(S) \in Nat
         /\ nth \in [1 .. Cardinality(S) -> S]
         /\ \A x \in S : \E i \in 1 .. Cardinality(S) : nth[i] = x
         /\ \A i, j \in 1 .. Cardinality(S) : i < j => nth[i] \in below[nth[j]]
<1> DEFINE n == Cardinality(S)
           r == [x \in S |-> Cardinality(below[x]) + 1]
<1> USE DEF Chain, Ranked
<1>1. n \in Nat
  BY FS_CardinalityType
<1>2. ASSUME NEW x \in S
      PROVE  IsFiniteSet(below[x]) /\ Cardinality(below[x]) \in Nat /\ Cardinality(below[x]) < n
  <2>1. below[x] \in SUBSET S /\ below[x] # S
    OBVIOUS
  <2>2. /\ IsFiniteSet(below[x]) /\ Cardinality(below[x]) <= n
        /\ n = Cardinality(below[x]) => S = below[x]
    BY <2>1, FS_Subset
  <2>3. Cardinality(below[x]) \in Nat
    BY <2>2, FS_CardinalityType
  <2> QED
    BY <1>1, <2>1, <2>2, <2>3
<1>3. ASSUME NEW x \in S, NEW y \in S, x \in below[y]
      PROVE  Cardinality(below[x]) < Cardinality(below[y])
  <2>1. below[x] \in SUBSET below[y] /\ below[x] # below[y]
    BY <1>3
  <2>2. /\ Cardinality(below[x]) <= Cardinality(below[y])
        /\ Cardinality(below[y]) = Cardinality(below[x]) => below[y] = below[x]
    BY <1>2, <2>1, FS_Subset
  <2> QED
    BY <1>2, <2>1, <2>2
<1>4. \A x, y \in S : Cardinality(below[x]) = Cardinality(below[y]) => x = y
  <2> SUFFICES ASSUME NEW x \in S, NEW y \in S,
                      Cardinality(below[x]) = Cardinality(below[y]), x # y
               PROVE  FALSE
    OBVIOUS
  <2>1. x \in below[y] \/ y \in below[x]
    OBVIOUS
  <2>2. Cardinality(below[x]) < Cardinality(below[y]) \/ Cardinality(below[y]) < Cardinality(below[x])
    BY <1>3, <2>1
  <2> QED
    BY <1>2, <2>2
<1>5. \A x \in S : r[x] \in 1 .. n /\ r[x] - 1 = Cardinality(below[x])
  BY <1>1, <1>2
<1>6. r \in Injection(S, 1 .. n)
  <2>1. r \in [S -> 1 .. n]
    BY <1>5
  <2>2. \A x, y \in S : r[x] = r[y] => x = y
    BY <1>4, <1>5
  <2> HIDE DEF r
  <2> QED
    BY <2>1, <2>2 DEF Injection, IsInjective
<1>7. IsFiniteSet(1 .. n) /\ Cardinality(1 .. n) = n
  BY <1>1, FS_Interval
<1>8. r \in Surjection(S, 1 .. n)
  BY <1>6, <1>7, FS_Injection
<1>9. \A i \in 1 .. n : \E x \in S : Cardinality(below[x]) = i - 1
  <2>1. \A i \in 1 .. n : \E x \in S : r[x] = i
    BY <1>8 DEF Surjection
  <2> QED
    BY <1>5, <2>1
<1> HIDE DEF n
<1>10. \A i \in 1 .. n : nth[i] \in S /\ Cardinality(below[nth[i]]) = i - 1
  BY <1>9 DEF n
<1>11. nth \in [1 .. n -> S]
  <2>1. nth = [i \in 1 .. n |-> nth[i]]
    BY DEF n
  <2> QED
    BY <1>10, <2>1
<1>12. ASSUME NEW x \in S PROVE \E i \in 1 .. n : nth[i] = x
  <2>1. r[x] \in 1 .. n /\ Cardinality(below[nth[r[x]]]) = Cardinality(below[x])
    BY <1>5, <1>10
  <2> QED
    BY <1>4, <1>10, <2>1
<1>13. ASSUME NEW i \in 1 .. n, NEW j \in 1 .. n, i < j PROVE nth[i] \in below[nth[j]]
  <2>1. /\ Cardinality(below[nth[i]]) = i - 1 /\ nth[i] \in S
        /\ Cardinality(below[nth[j]]) = j - 1 /\ nth[j] \in S
        /\ i \in Int /\ j \in Int
    BY <1>1, <1>10
  <2>2. nth[i] # nth[j]
    <3>1. i - 1 # j - 1
      BY <1>13, <2>1
    <3> QED
      BY <2>1, <3>1
  <2>3. nth[j] \notin below[nth[i]]
    <3>1. ~(j - 1 < i - 1)
      BY <1>13, <2>1
    <3> QED
      BY <1>3, <2>1, <3>1
  <2> QED
    BY <2>1, <2>2, <2>3
<1> QED
  BY <1>1, <1>11, <1>12, <1>13 DEF n

\* Sorting keeps the disks, and brings each before those it is less than.
LEMMA SortedDisks ==
  ASSUME NEW S \in SUBSET ((Nat \ {0}) \X Nat), IsFiniteSet(S)
  PROVE  /\ Sorted(S) \in Seq(S) /\ Len(Sorted(S)) = Cardinality(S)
         /\ \A d \in S : \E k \in 1 .. Len(Sorted(S)) : Sorted(S)[k] = d
         /\ \A j, k \in 1 .. Len(Sorted(S)) : j < k => Less(Sorted(S)[j], Sorted(S)[k])
<1> DEFINE below == [d \in S |-> {e \in S : Less(e, d)}]
           q == Sorted(S)
           n == Cardinality(S)
<1>1. \A d \in S : d[1] \in Nat /\ d[2] \in Nat /\ d = <<d[1], d[2]>>
  OBVIOUS
<1>2. Chain(S, below)
  <2>1. \A x \in S : ~Less(x, x)
    BY <1>1 DEF Less
  <2>2. \A x, y \in S : x = y \/ Less(x, y) \/ Less(y, x)
    BY <1>1 DEF Less
  <2>3. \A x, y, z \in S : Less(x, y) /\ Less(z, x) => Less(z, y)
    BY <1>1 DEF Less
  <2> QED
    BY <2>1, <2>2, <2>3 DEF Chain
<1>3. Ranked(S, below, q)
  <2> DEFINE at(i) == CHOOSE x \in S : Cardinality({e \in S : Less(e, x)}) = i - 1
  <2>1. \A x \in S : below[x] = {e \in S : Less(e, x)}
    OBVIOUS
  <2>2. q = [i \in 1 .. n |-> at(i)]
    BY DEF Sorted
  <2> HIDE DEF below, q, at
  <2>3. ASSUME NEW i \in 1 .. n, NEW x \in S, Cardinality(below[x]) = i - 1
        PROVE  q[i] \in S /\ Cardinality(below[q[i]]) = i - 1
    <3>1. q[i] = CHOOSE y \in S : Cardinality({e \in S : Less(e, y)}) = i - 1
      BY <2>2 DEF at
    <3>2. Cardinality({e \in S : Less(e, x)}) = i - 1
      BY <2>1, <2>3
    <3>3. q[i] \in S /\ Cardinality({e \in S : Less(e, q[i])}) = i - 1
      BY <3>1, <3>2
    <3> QED
      BY <2>1, <3>3
  <2>4. q = [i \in 1 .. n |-> q[i]]
    BY <2>2
  <2> QED
    BY <2>3, <2>4 DEF Ranked
<1>4. \A d, e \in S : e \in below[d] => Less(e, d)
  OBVIOUS
<1> HIDE DEF below, q
<1>5. /\ n \in Nat /\ q \in [1 .. n -> S]
      /\ \A x \in S : \E i \in 1 .. n : q[i] = x
      /\ \A i, j \in 1 .. n : i < j => q[i] \in below[q[j]]
  BY <1>2, <1>3, Ranks
<1> HIDE DEF n
<1>6. q \in Seq(S) /\ Len(q) = n
  BY <1>5
<1>7. \A i, j \in 1 .. n : i < j => Less(q[i], q[j])
  BY <1>4, <1>5
<1> QED
  BY <1>5, <1>6, <1>7 DEF q, n

\* What is kept of a list is what is in the set, in the order of the list.
LEMMA KeptDisks ==
  ASSUME NEW X, NEW list \in Seq(X), NEW S
  PROVE  /\ Kept(list, S) \in Seq(X)
         /\ \A k \in 1 .. Len(Kept(list, S)) :
              Kept(list, S)[k] \in S /\ \E j \in 1 .. Len(list) : Kept(list, S)[k] = list[j]
         /\ \A j \in 1 .. Len(list) : list[j] \in S =>
              \E k \in 1 .. Len(Kept(list, S)) : Kept(list, S)[k] = list[j]
         /\ \A j, k \in 1 .. Len(Kept(list, S)) : j < k =>
              \E a, b \in 1 .. Len(list) :
                a < b /\ Kept(list, S)[j] = list[a] /\ Kept(list, S)[k] = list[b]
<1> DEFINE at == {k \in DOMAIN list : list[k] \in S}
           below == [k \in at |-> {j \in at : j < k}]
           n == Cardinality(at)
           place(i) == CHOOSE k \in at : Cardinality({j \in at : j < k}) = i - 1
           nth == [i \in 1 .. n |-> place(i)]
           q == Kept(list, S)
<1>1. Len(list) \in Nat /\ DOMAIN list = 1 .. Len(list) /\ \A k \in 1 .. Len(list) : list[k] \in X
  BY LenProperties, ElementOfSeq
<1>2. IsFiniteSet(at) /\ at \subseteq 1 .. Len(list)
  <2>1. IsFiniteSet(1 .. Len(list))
    BY <1>1, FS_Interval
  <2>2. at \in SUBSET (1 .. Len(list))
    BY <1>1
  <2> QED
    BY <2>1, <2>2, FS_Subset
<1>3. \A k \in 1 .. Len(list) : k \in at <=> list[k] \in S
  BY <1>1
<1>4. q = [i \in 1 .. n |-> list[nth[i]]]
  BY DEF Kept
<1> HIDE DEF at, q
<1>5. \A k \in at : k \in Nat
  BY <1>1, <1>2
<1>6. Chain(at, below)
  BY <1>5 DEF Chain
<1>7. \A x, y \in at : x \in below[y] => x < y
  OBVIOUS
<1>8. Ranked(at, below, nth)
  <2>1. \A x \in at : below[x] = {j \in at : j < x}
    OBVIOUS
  <2>2. nth = [i \in 1 .. n |-> place(i)]
    OBVIOUS
  <2> HIDE DEF below, nth, place
  <2>3. ASSUME NEW i \in 1 .. n, NEW x \in at, Cardinality(below[x]) = i - 1
        PROVE  nth[i] \in at /\ Cardinality(below[nth[i]]) = i - 1
    <3>1. nth[i] = CHOOSE y \in at : Cardinality({j \in at : j < y}) = i - 1
      BY <2>2 DEF place
    <3>2. Cardinality({j \in at : j < x}) = i - 1
      BY <2>1, <2>3
    <3>3. nth[i] \in at /\ Cardinality({j \in at : j < nth[i]}) = i - 1
      BY <3>1, <3>2
    <3> QED
      BY <2>1, <3>3
  <2>4. nth = [i \in 1 .. n |-> nth[i]]
    BY <2>2
  <2> QED
    BY <2>3, <2>4 DEF Ranked
<1> HIDE DEF below, nth
<1>9. /\ n \in Nat /\ nth \in [1 .. n -> at]
      /\ \A x \in at : \E i \in 1 .. n : nth[i] = x
      /\ \A i, j \in 1 .. n : i < j => nth[i] \in below[nth[j]]
  BY <1>2, <1>6, <1>8, Ranks
<1> HIDE DEF n
<1>10. \A i \in 1 .. n : q[i] = list[nth[i]] /\ nth[i] \in 1 .. Len(list) /\ q[i] \in X /\ q[i] \in S
  BY <1>1, <1>2, <1>3, <1>4, <1>9
<1>11. q \in Seq(X) /\ Len(q) = n
  <2>1. q \in [1 .. n -> X]
    BY <1>4, <1>10
  <2> QED
    BY <1>9, <2>1
<1>12. \A i, j \in 1 .. n : i < j => nth[i] < nth[j]
  BY <1>7, <1>9
<1>13. \A j \in 1 .. Len(list) : list[j] \in S => \E k \in 1 .. n : q[k] = list[j]
  BY <1>3, <1>9, <1>10
<1> QED
  BY <1>10, <1>11, <1>12, <1>13 DEF q

\* What Disks returns: everything with media, each disk before those it is
\* less than.
LEMMA DisksListed ==
  ASSUME host \in Hosts
  PROVE  /\ Disks \in Seq(host.media) /\ ToSet(Disks) = host.media
         /\ Len(Disks) = Cardinality(host.media)
         /\ \A j, k \in DOMAIN Disks : j < k => Less(Disks[j], Disks[k])
         /\ NoDisk \notin host.media
<1> DEFINE Names == (Nat \ {0}) \X Nat
           S == ToSet(host.lists) \cap host.media
<1>1. host.lists \in Seq(Names) /\ host.media \subseteq ToSet(host.lists)
  BY HostsAssumption
<1>2. NoDisk \notin Names
  BY DEF NoDisk
<1> HIDE DEF Names
<1>3. /\ Len(host.lists) \in Nat /\ DOMAIN host.lists = 1 .. Len(host.lists)
      /\ \A k \in 1 .. Len(host.lists) : host.lists[k] \in Names
  BY <1>1, LenProperties, ElementOfSeq
<1>4. ToSet(host.lists) \subseteq Names /\ IsFiniteSet(ToSet(host.lists))
  <2>1. ToSet(host.lists) = {host.lists[k] : k \in DOMAIN host.lists}
    BY DEF ToSet
  <2>2. IsFiniteSet(1 .. Len(host.lists))
    BY <1>3, FS_Interval
  <2> DEFINE f == [k \in 1 .. Len(host.lists) |-> host.lists[k]]
  <2>3. f \in Surjection(1 .. Len(host.lists), ToSet(host.lists))
    BY <1>3, <2>1 DEF Surjection
  <2> QED
    BY <1>3, <2>1, <2>2, <2>3, FS_Surjection
<1>5. S = host.media /\ S \in SUBSET Names /\ IsFiniteSet(S)
  <2>1. S \in SUBSET ToSet(host.lists)
    OBVIOUS
  <2> QED
    BY <1>1, <1>4, <2>1, FS_Subset
<1> HIDE DEF S
<1>6. /\ Sorted(S) \in Seq(S) /\ Len(Sorted(S)) = Cardinality(S)
      /\ \A d \in S : \E k \in 1 .. Len(Sorted(S)) : Sorted(S)[k] = d
      /\ \A j, k \in 1 .. Len(Sorted(S)) : j < k => Less(Sorted(S)[j], Sorted(S)[k])
  BY <1>5, SortedDisks DEF Names
<1>7. Disks = Sorted(S)
  BY DEF Disks, S
<1>8. /\ DOMAIN Sorted(S) = 1 .. Len(Sorted(S))
      /\ \A k \in 1 .. Len(Sorted(S)) : Sorted(S)[k] \in S
  BY <1>6, LenProperties, ElementOfSeq
<1>9. ToSet(Sorted(S)) = S
  BY <1>6, <1>8 DEF ToSet
<1> QED
  BY <1>2, <1>5, <1>6, <1>7, <1>8, <1>9

\* What is picked: the disks that are ticked, in their order.
LEMMA PickedDisks ==
  ASSUME host \in Hosts, NEW S \in SUBSET host.media
  PROVE  /\ ToSet(Kept(Disks, S)) = S
         /\ \A j, k \in DOMAIN Kept(Disks, S) : j < k => Less(Kept(Disks, S)[j], Kept(Disks, S)[k])
<1> DEFINE q == Kept(Disks, S)
<1>1. /\ Disks \in Seq(host.media) /\ ToSet(Disks) = host.media
      /\ \A j, k \in DOMAIN Disks : j < k => Less(Disks[j], Disks[k])
  BY DisksListed
<1>2. DOMAIN Disks = 1 .. Len(Disks) /\ \A d \in host.media : \E k \in 1 .. Len(Disks) : Disks[k] = d
  <2>1. DOMAIN Disks = 1 .. Len(Disks)
    BY <1>1, LenProperties
  <2> QED
    BY <1>1, <2>1 DEF ToSet
<1>3. /\ q \in Seq(host.media)
      /\ \A k \in 1 .. Len(q) : q[k] \in S /\ \E j \in 1 .. Len(Disks) : q[k] = Disks[j]
      /\ \A j \in 1 .. Len(Disks) : Disks[j] \in S => \E k \in 1 .. Len(q) : q[k] = Disks[j]
      /\ \A j, k \in 1 .. Len(q) : j < k =>
           \E a, b \in 1 .. Len(Disks) : a < b /\ q[j] = Disks[a] /\ q[k] = Disks[b]
  BY <1>1, KeptDisks
<1> HIDE DEF q
<1>4. DOMAIN q = 1 .. Len(q)
  BY <1>3, LenProperties
<1>5. ASSUME NEW d \in S PROVE \E k \in 1 .. Len(q) : q[k] = d
  <2>1. PICK j \in 1 .. Len(Disks) : Disks[j] = d
    BY <1>2
  <2> QED
    BY <1>3, <2>1
<1>6. ToSet(q) = S
  BY <1>3, <1>4, <1>5 DEF ToSet
<1>7. ASSUME NEW j \in DOMAIN q, NEW k \in DOMAIN q, j < k PROVE Less(q[j], q[k])
  <2>1. j \in 1 .. Len(q) /\ k \in 1 .. Len(q)
    BY <1>4
  <2>2. \E a, b \in 1 .. Len(Disks) : a < b /\ q[j] = Disks[a] /\ q[k] = Disks[b]
    BY <1>3, <1>7, <2>1
  <2>3. PICK a \in 1 .. Len(Disks), b \in 1 .. Len(Disks) :
          a < b /\ q[j] = Disks[a] /\ q[k] = Disks[b]
    BY <2>2
  <2> QED
    BY <1>1, <1>2, <2>3
<1> QED
  BY <1>6, <1>7 DEF q

-----------------------------------------------------------------------------
(* Startup: the inductive invariant *)

Asked == [k \in DOMAIN request.names |-> request.names[k].disk]

\* Nobody is asked.
Unasked == All \/ Cardinality(host.media) = 1

\* What is watched is what was named, or everything, or what was ticked when
\* somebody was asked.
WatchInv ==
  /\ watch # <<>>
  /\ IF request.names # <<>>
     THEN watch = Asked /\ ToSet(watch) \subseteq host.media
     ELSE \/ Unasked /\ watch = Disks
          \/ ~Unasked /\ watch = Kept(Disks, marked) /\ marked \subseteq host.media

Sampling ==
  [source |-> OrDefault(2 * (request.interval \div 2)), model |-> OrDefault(request.interval)]

\* What is settled at each stage stays so.
StagesInv ==
  /\ stage \in {"choose", "pick", "check", "new", "start", "running"}
       => disks = Disks /\ ~request.list
  /\ stage = "pick" => request.names = <<>> /\ ~Unasked /\ marked \subseteq host.media
  /\ stage \in {"check", "new", "start", "running"} => WatchInv
  /\ stage \in {"new", "start", "running"} => host.root
  /\ stage \in {"start", "running"} =>
       request.kind \in DOMAIN Backend /\ source = Backend[request.kind]
  /\ stage = "running" => sampling = Sampling

StartInv ==
  /\ host \in Hosts /\ request \in Requests
  /\ stage = "demo" => request.demo
  /\ ~request.demo => StagesInv

\* Only the first steps, and the last one of Demo, are taken without a list.
LEMMA EnumerateInv == StartInv /\ Enumerate => StartInv'
<1> SUFFICES ASSUME StartInv, Enumerate PROVE StartInv'
  OBVIOUS
<1>1. /\ UNCHANGED <<host, request, marked, watch, source, sampling>>
      /\ disks' = Disks /\ stage' \in {"error", "listed", "choose"}
      /\ stage' = "choose" => ~request.list
  BY DEF Enumerate
<1>2. Disks' = Disks
  BY <1>1 DEF Disks
<1> QED
  BY <1>1, <1>2 DEF StartInv, StagesInv

LEMMA FixedByHost ==
  ASSUME UNCHANGED <<host, request>>
  PROVE  /\ Disks' = Disks /\ Unasked' = Unasked /\ Asked' = Asked /\ Sampling' = Sampling
         /\ Backend' = Backend
BY DEF Disks, All, Unasked, Asked, Sampling, Backend

LEMMA FailInv == StartInv /\ Fail => StartInv'
BY DEF Fail, StartInv, StagesInv

\* Each way through choose.
LEMMA WatchStep ==
  ASSUME StartInv, NEW chosen, Watch(chosen), stage \in {"choose", "pick"},
         chosen # <<>> => WatchInv'
  PROVE  StartInv'
<1>1. /\ UNCHANGED <<host, request, disks, marked, source, sampling>>
      /\ watch' = chosen
      /\ stage' = "nothing" \/ (stage' = "check" /\ chosen # <<>>)
  BY DEF Watch
<1> QED
  BY <1>1, FixedByHost DEF StartInv, StagesInv

LEMMA ChooseInv ==
  ASSUME StartInv, ChooseNamed \/ ChooseAll \/ OpenPicker PROVE StartInv'
<1>1. CASE request.demo
  <2>1. UNCHANGED <<host, request>>
    BY DEF ChooseNamed, ChooseAll, OpenPicker, Watch, Fail
  <2> QED
    BY <1>1, <2>1 DEF StartInv
<1>2. CASE ~request.demo
  <2>1. stage = "choose" /\ disks = Disks /\ ~request.list /\ host \in Hosts
    BY <1>2 DEF ChooseNamed, ChooseAll, OpenPicker, StartInv, StagesInv
  <2>2. /\ ToSet(Disks) = host.media /\ NoDisk \notin host.media
        /\ Unasked <=> (All \/ Len(disks) = 1)
    BY <2>1, DisksListed DEF Unasked
  <2>3. CASE ChooseNamed
    <3> DEFINE named == [k \in DOMAIN request.names |-> DeviceName(request.names[k])]
    <3>1. CASE ToSet(named) \subseteq ToSet(disks)
      <4>1. Watch(named) /\ named # <<>>
        BY <2>3, <3>1 DEF ChooseNamed
      <4>2. request.names # <<>>
        BY <4>1
      <4>3. \A k \in DOMAIN request.names : named[k] \in ToSet(named)
        BY DEF ToSet
      <4>4. \A k \in DOMAIN request.names : named[k] = request.names[k].disk
        BY <2>1, <2>2, <3>1, <4>3 DEF DeviceName
      <4>5. named = Asked
        BY <4>4 DEF Asked
      <4> HIDE DEF named
      <4>6. UNCHANGED <<host, request>> /\ watch' = named
        BY <4>1 DEF Watch
      <4>7. WatchInv'
        BY <2>1, <2>2, <3>1, <4>1, <4>2, <4>5, <4>6, FixedByHost DEF WatchInv
      <4> QED
        BY <2>1, <4>1, <4>7, WatchStep
    <3>2. CASE ~(ToSet(named) \subseteq ToSet(disks))
      BY <2>3, <3>2, FailInv DEF ChooseNamed
    <3> QED
      BY <3>1, <3>2
  <2>4. CASE ChooseAll
    <3>1. Watch(disks) /\ request.names = <<>> /\ Unasked
      BY <2>2, <2>4 DEF ChooseAll
    <3>2. UNCHANGED <<host, request>> /\ watch' = disks
      BY <3>1 DEF Watch
    <3>3. disks # <<>> => WatchInv'
      BY <2>1, <3>1, <3>2, FixedByHost DEF WatchInv
    <3> QED
      BY <2>1, <3>1, <3>3, WatchStep
  <2>5. CASE OpenPicker
    <3>1. /\ UNCHANGED <<host, request, disks, watch, source, sampling>>
          /\ request.names = <<>> /\ ~Unasked /\ stage' = "pick"
          /\ marked' = ToSet(disks) \ host.images
      BY <2>2, <2>5 DEF OpenPicker
    <3>2. marked' \subseteq host.media
      BY <2>1, <2>2, <3>1
    <3> QED
      BY <2>1, <3>1, <3>2, FixedByHost DEF StartInv, StagesInv
  <2> QED
    BY <2>3, <2>4, <2>5
<1> QED
  BY <1>1, <1>2

LEMMA PickInv ==
  ASSUME StartInv, Pick \/ AbortPick \/ PickFails \/ (\E d \in ToSet(disks) : Toggle(d))
  PROVE  StartInv'
<1>1. CASE request.demo
  <2>1. UNCHANGED <<host, request>>
    BY DEF Pick, AbortPick, PickFails, Toggle, Watch, Fail
  <2> QED
    BY <1>1, <2>1 DEF StartInv
<1>2. CASE ~request.demo
  <2>1. /\ stage = "pick" /\ disks = Disks /\ ~request.list /\ host \in Hosts
        /\ request.names = <<>> /\ ~Unasked /\ marked \subseteq host.media
    BY <1>2 DEF Pick, AbortPick, PickFails, Toggle, StartInv, StagesInv
  <2>2. CASE Pick
    <3>1. Watch(Kept(disks, marked))
      BY <2>2 DEF Pick
    <3>2. UNCHANGED <<host, request, marked>> /\ watch' = Kept(disks, marked)
      BY <3>1 DEF Watch
    <3>3. Kept(disks, marked) # <<>> => WatchInv'
      BY <2>1, <3>2, FixedByHost DEF WatchInv
    <3> QED
      BY <2>1, <3>1, <3>3, WatchStep
  <2>3. CASE AbortPick
    BY <2>1, <2>3, WatchStep DEF AbortPick
  <2>4. CASE PickFails
    BY <2>4, FailInv DEF PickFails
  <2>5. ASSUME NEW d \in ToSet(disks), Toggle(d) PROVE StartInv'
    <3>1. /\ UNCHANGED <<stage, host, request, disks, watch, source, sampling>>
          /\ marked' \subseteq marked \cup {d}
      BY <2>5 DEF Toggle
    <3>2. marked' \subseteq host.media
      BY <2>1, <3>1, DisksListed
    <3> QED
      BY <2>1, <3>1, <3>2, FixedByHost DEF StartInv, StagesInv
  <2> QED
    BY <2>2, <2>3, <2>4, <2>5
<1> QED
  BY <1>1, <1>2

LEMMA SourceInv ==
  ASSUME StartInv, CheckSource \/ NewSource \/ Start \/ StartFails \/ Demo \/ DisksFail
  PROVE  StartInv'
<1>1. CASE CheckSource
  <2>1. CASE host.root /\ Needs \subseteq host.tools
    <3>1. /\ stage = "check" /\ stage' = "new" /\ host.root
          /\ UNCHANGED <<host, request, disks, marked, watch, source, sampling>>
      BY <1>1, <2>1 DEF CheckSource
    <3> QED
      BY <3>1, FixedByHost DEF StartInv, StagesInv, WatchInv
  <2>2. CASE ~(host.root /\ Needs \subseteq host.tools)
    BY <1>1, <2>2, FailInv DEF CheckSource
  <2> QED
    BY <2>1, <2>2
<1>2. CASE NewSource
  <2>1. CASE request.kind \in DOMAIN Backend
    <3>1. /\ stage = "new" /\ stage' = "start" /\ source' = Backend[request.kind]
          /\ UNCHANGED <<host, request, disks, marked, watch, sampling>>
      BY <1>2, <2>1 DEF NewSource
    <3> QED
      BY <2>1, <3>1, FixedByHost DEF StartInv, StagesInv, WatchInv
  <2>2. CASE request.kind \notin DOMAIN Backend
    BY <1>2, <2>2, FailInv DEF NewSource
  <2> QED
    BY <2>1, <2>2
<1>3. CASE Start
  <2>1. /\ stage = "start" /\ stage' = "running" /\ sampling' = Sampling
        /\ UNCHANGED <<host, request, disks, marked, watch, source>>
    BY <1>3 DEF Start, Sampling
  <2> QED
    BY <2>1, FixedByHost DEF StartInv, StagesInv, WatchInv
<1>4. CASE StartFails \/ DisksFail
  BY <1>4, FailInv DEF StartFails, DisksFail
<1>5. CASE Demo
  BY <1>5 DEF Demo, StartInv
<1> QED
  BY <1>1, <1>2, <1>3, <1>4, <1>5

LEMMA StartInvariant == StartSpec => []StartInv
<1>1. StartInit => StartInv
  BY DEF StartInit, StartInv, StagesInv
<1>2. StartInv /\ [StartNext]_startVars => StartInv'
  <2> SUFFICES ASSUME StartInv, [StartNext]_startVars PROVE StartInv'
    OBVIOUS
  <2>1. CASE Program
    BY <2>1, SourceInv, EnumerateInv, ChooseInv DEF Program
  <2>2. CASE User
    BY <2>2, PickInv DEF User
  <2>3. CASE Rest \/ UNCHANGED startVars
    <3>1. UNCHANGED startVars
      BY <2>3 DEF Rest
    <3> QED
      BY <3>1, FixedByHost DEF startVars, StartInv, StagesInv, WatchInv
  <2> QED
    BY <2>1, <2>2, <2>3 DEF StartNext
<1> QED
  BY <1>1, <1>2, PTL DEF StartSpec

\* What runs is what was asked for: for any number of disks with any names, in
\* whatever order they are listed, any names typed, and any keys in the picker.
THEOREM RunsAsAsked == StartSpec => []StartsAsAsked
<1>1. ASSUME StartInv PROVE StartsAsAsked
  <2> SUFFICES ASSUME stage = "running", ~request.demo
               PROVE  /\ ~request.list /\ host.root
                      /\ watch # <<>> /\ ToSet(watch) \subseteq host.media
                      /\ IF request.names # <<>> THEN watch = Asked
                         ELSE /\ \A j, k \in DOMAIN watch : j < k => Less(watch[j], watch[k])
                              /\ ToSet(watch) = IF Unasked THEN host.media ELSE marked
                      /\ request.kind \in {"auto", source}
                      /\ request.interval % 2 = 0 => sampling.source = sampling.model
    BY DEF StartsAsAsked, Asked, All, Unasked, Less
  <2>1. /\ host \in Hosts /\ request \in Requests /\ ~request.list /\ WatchInv /\ host.root
        /\ request.kind \in DOMAIN Backend /\ source = Backend[request.kind]
        /\ sampling = Sampling
    BY <1>1 DEF StartInv, StagesInv
  <2>2. /\ ToSet(watch) \subseteq host.media
        /\ IF request.names # <<>> THEN watch = Asked
           ELSE /\ \A j, k \in DOMAIN watch : j < k => Less(watch[j], watch[k])
                /\ ToSet(watch) = IF Unasked THEN host.media ELSE marked
    <3>1. CASE request.names # <<>>
      BY <2>1, <3>1 DEF WatchInv
    <3>2. CASE request.names = <<>> /\ Unasked
      BY <2>1, <3>2, DisksListed DEF WatchInv
    <3>3. CASE request.names = <<>> /\ ~Unasked
      BY <2>1, <3>3, PickedDisks DEF WatchInv
    <3> QED
      BY <3>1, <3>2, <3>3
  <2>3. request.kind \in {"auto", source}
    BY <2>1 DEF Backend
  <2>4. request.interval % 2 = 0 => sampling.source = sampling.model
    <3>1. request.interval \in Int
      BY <2>1, RequestsAssumption
    <3>2. request.interval % 2 = 0 => 2 * (request.interval \div 2) = request.interval
      BY <3>1
    <3> QED
      BY <2>1, <3>2 DEF Sampling
  <2> QED
    BY <2>1, <2>2, <2>3, <2>4 DEF WatchInv
<1> QED
  BY <1>1, StartInvariant, PTL
===============================================================================
