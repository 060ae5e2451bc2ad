------------------------------- MODULE Options -------------------------------
(***************************************************************************)
(* How blockio settles its options (src/main.go, main; src/config.go): the *)
(* flags are parsed, the config file is folded in line by line, then the   *)
(* flags that were given are applied again, and what is left to decide is  *)
(* fitted to the terminal.                                                 *)
(*                                                                         *)
(* Sizes and times are integers. A word that its parser knows is in Good.  *)
(***************************************************************************)
EXTENDS Integers, Sequences, FiniteSets, FiniteSetsExt

CONSTANTS CommandLines,  \* the flags given and their values, one function each
          Lines,         \* lines of a config file: [key, value]
          Default,       \* DefaultConfig, and the defaults of -i and -source
          Good,          \* the words that parse
          Garbage,       \* what is no time, number or boolean
          MinBuckets, MaxBuckets,
          Terminals,     \* [width, height] of a terminal, 0 for none
          MaxLines       \* bound: lines in the config file

Words  == {"color", "scale", "thresholds", "source"}
Option == Words \cup {"decay", "trail", "buckets", "columns", "half", "interval"}

ASSUME CommandLinesAssumption == \A c \in CommandLines : DOMAIN c \subseteq Option
ASSUME DefaultAssumption == DOMAIN Default = Option
ASSUME BucketsAssumption ==
  /\ MinBuckets \in Nat \ {0} /\ MaxBuckets \in Nat
  /\ Default["buckets"] \in MinBuckets .. MaxBuckets
  /\ \A c \in CommandLines : "buckets" \in DOMAIN c => c["buckets"] \in Int
  /\ \A l \in Lines : l.key = "buckets" /\ l.value # Garbage => l.value \in Int
ASSUME MaxLinesAssumption == MaxLines \in Nat \ {0}
ASSUME TerminalsAssumption == Terminals \subseteq [width : Nat, height : Nat]

VARIABLES step,      \* "file", "words", "direct" or "run"
          given,     \* the flags that were given, and their values
          terminal,  \* the terminal standard output is on
          file,      \* the lines read so far
          cfg,       \* cfg, interval and kind
          todo,      \* word flags that main's loop has not come to
          warnings   \* how many there are

optVars == <<step, given, terminal, file, cfg, todo, warnings>>

Given(o) == o \in DOMAIN given

\* flag.Parse has run: -i writes the interval, the other flags' values wait.
Init ==
  /\ step = "file"
  /\ given \in CommandLines
  /\ terminal \in Terminals
  /\ file = <<>>
  /\ cfg = IF Given("interval")
           THEN [Default EXCEPT !["interval"] = given["interval"]]
           ELSE Default
  /\ todo = Words \cap DOMAIN given
  /\ warnings = 0

-----------------------------------------------------------------------------
(* setOption *)

ClampBuckets(n) ==
  IF n < MinBuckets THEN MinBuckets ELSE IF n > MaxBuckets THEN MaxBuckets ELSE n

\* What the parser of an option takes. A line that is not option = value has a
\* key that is no option.
Accepts(key, value) ==
  \/ key \in Words /\ value \in Good
  \/ key \in {"decay", "interval"} /\ value # Garbage /\ value > 0
  \/ key \in {"trail", "buckets", "columns"} /\ value # Garbage /\ value >= 0
  \/ key = "half" /\ value # Garbage

\* Wrong variant: as it is given.
StoredUnclamped(key, value) == value

Stored(key, value) == IF key = "buckets" THEN ClampBuckets(value) ELSE value

\* Wrong variant: what the parser returns is stored before its error is looked
\* at; that of half returns FALSE with one.
RejectedLate(key, value) ==
  cfg' = IF key \in Option
         THEN [cfg EXCEPT ![key] = IF key = "half" THEN FALSE ELSE Stored(key, value)]
         ELSE cfg

Rejected(key, value) == UNCHANGED cfg

\* Wrong variant: the error is ignored.
WarnedNever == warnings

Warned == warnings + 1

\* A bad value is a warning, and changes nothing.
SetOption(key, value) ==
  IF Accepts(key, value)
  THEN cfg' = [cfg EXCEPT ![key] = Stored(key, value)] /\ UNCHANGED warnings
  ELSE Rejected(key, value) /\ warnings' = Warned

-----------------------------------------------------------------------------
(* main *)

\* loadConfig's loop.
LoadLine(line) ==
  /\ step = "file"
  /\ Len(file) < MaxLines
  /\ file' = Append(file, line)
  /\ SetOption(line.key, line.value)
  /\ UNCHANGED <<step, given, terminal, todo>>

Unreadable == [key |-> "unreadable", value |-> "unreadable"]

\* The file is there and does not open.
CannotOpen ==
  /\ step = "file"
  /\ file = <<>>
  /\ file' = <<Unreadable>>
  /\ warnings' = warnings + 1
  /\ step' = "words"
  /\ UNCHANGED <<given, terminal, cfg, todo>>

\* The end of the file, or there is none.
EndOfFile ==
  /\ step = "file"
  /\ step' = "words"
  /\ UNCHANGED <<given, terminal, file, cfg, todo, warnings>>

\* The loop over a map of four flags, in an order Go does not fix.
SetWord(o) ==
  /\ step = "words"
  /\ o \in todo
  /\ SetOption(o, given[o])
  /\ todo' = todo \ {o}
  /\ UNCHANGED <<step, given, terminal, file>>

EndOfWords ==
  /\ step = "words"
  /\ todo = {}
  /\ step' = "direct"
  /\ UNCHANGED <<given, terminal, file, cfg, todo, warnings>>

\* As many slices as the terminal has cells, rounded up to a power of two, as
\* far as that matters: beyond MaxBuckets there are MaxBuckets.
Cells(half) == terminal.width * terminal.height * (IF half THEN 2 ELSE 1)

PowersOf2 == {2 ^ k : k \in 0 .. 20}

AutoBuckets(half) ==
  IF terminal.width = 0 \/ terminal.height = 0
  THEN Default["buckets"]
  ELSE ClampBuckets(Min({p \in PowersOf2 : p >= Cells(half)} \cup {MaxBuckets}))

\* Flags that main writes itself; -i is not among them.
Direct == {"decay", "trail", "buckets", "columns", "half"}

WithFlags ==
  [o \in Option |->
     IF o \in Direct /\ Given(o) THEN Stored(o, given[o]) ELSE cfg[o]]

\* Wrong variant: the slices are fitted before -half is looked at.
HalfOfFile == cfg["half"]

Half == WithFlags["half"]

\* The flags of Direct, and the slices if nobody has asked for a number of
\* them (or the file has asked for the default).
SetDirect ==
  /\ step = "direct"
  /\ cfg' = IF ~Given("buckets") /\ WithFlags["buckets"] = Default["buckets"]
            THEN [WithFlags EXCEPT !["buckets"] = AutoBuckets(Half)]
            ELSE WithFlags
  /\ step' = "run"
  /\ UNCHANGED <<given, terminal, file, todo, warnings>>

Running ==
  /\ step = "run"
  /\ UNCHANGED optVars

Next ==
  \/ \E line \in Lines : LoadLine(line)
  \/ CannotOpen
  \/ EndOfFile
  \/ \E o \in Words : SetWord(o)
  \/ EndOfWords
  \/ SetDirect
  \/ Running

Spec == Init /\ [][Next]_optVars

-----------------------------------------------------------------------------
(* Properties *)

\* The values of words, times and switches are whatever they may be.
TypeOK ==
  /\ step \in {"file", "words", "direct", "run"}
  /\ given \in CommandLines
  /\ terminal \in Terminals
  /\ Len(file) <= MaxLines /\ \A k \in DOMAIN file : file[k] \in Lines \cup {Unreadable}
  /\ DOMAIN cfg = Option
  /\ cfg["buckets"] \in MinBuckets .. MaxBuckets
  /\ todo \subseteq Words \cap DOMAIN given
  /\ warnings \in 0 .. MaxLines + Cardinality(Words)

\* The lines of the file that say something about an option.
LinesFor(o) ==
  {k \in DOMAIN file : file[k].key = o /\ Accepts(o, file[k].value)}

\* A flag decides, if it has a value that counts; or else the last good line
\* of the file; or else the default.
Decided(o) ==
  CASE Given(o) /\ (o \in Words => given[o] \in Good) -> Stored(o, given[o])
    [] OTHER -> IF LinesFor(o) # {}
                THEN Stored(o, file[Max(LinesFor(o))].value)
                ELSE Default[o]

\* "The config file sets defaults; flags actually given beat it" (main.go,
\* line 57), whatever order the lines and the flags come in, for every option
\* but the two that have properties of their own. A bad line or a bad flag
\* takes nothing away from the good ones.
FlagThenFileThenDefault ==
  step = "run" => \A o \in Option \ {"interval", "buckets"} : cfg[o] = Decided(o)

\* "A bad line is a warning, never fatal" (config.go, line 40): there is one
\* warning for each bad line and each bad word flag, and no other.
OneWarningEach ==
  step = "run" =>
    warnings = Cardinality({k \in DOMAIN file : ~Accepts(file[k].key, file[k].value)})
             + Cardinality({o \in Words \cap DOMAIN given : given[o] \notin Good})

\* The number of slices that decides, if one was asked for, is 0.
ZeroAsked ==
  IF Given("buckets")
  THEN given["buckets"] = 0
  ELSE LinesFor("buckets") # {} /\ file[Max(LinesFor("buckets"))].value = 0

\* "so the map is not coarser than the screen" (main.go, line 103): where
\* nobody asked for a number of slices there are as many as cells drawn, with
\* the half blocks that were decided in the end, but for the largest number
\* there may be; and a number that was asked for is kept, but for the default
\* in the file. Nothing is said here of a 0, which asks for a fit
\* (ZeroBucketsFit).
SlicesFitScreen ==
  (step = "run" /\ ~ZeroAsked) =>
    IF Given("buckets") \/ Decided("buckets") # Default["buckets"]
    THEN cfg["buckets"] = Decided("buckets")
    ELSE \/ terminal.width * terminal.height = 0
         \/ cfg["buckets"] >= Cells(cfg["half"])
         \/ cfg["buckets"] = MaxBuckets

\* "Flags override the file" (README.md, line 246), for -i.
IntervalFlagBeatsFile ==
  step = "run" /\ Given("interval") => cfg["interval"] = given["interval"]

\* "0 fits the terminal" (main.go, line 47), for -buckets 0, and for a line of
\* the file, which takes "the same values as the flag" (blockio.8, line 261).
ZeroBucketsFit ==
  (step = "run" /\ ZeroAsked) => cfg["buckets"] = AutoBuckets(cfg["half"])
==============================================================================
