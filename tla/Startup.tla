-------------------------------- MODULE Startup --------------------------------
(***************************************************************************)
(* How a run of blockio starts (src/main.go, run and choose): the disks of *)
(* the machine (Disks in src/bio/disks_*.go), those to watch, the check of *)
(* the source and the source itself (src/bio/source_*.go, unsupported.go). *)
(*                                                                         *)
(* The name of a disk is its letters and its number: ada10 is <<l, 10>>    *)
(* with l the place of "ada" in the alphabet. Times are in half            *)
(* milliseconds.                                                           *)
(***************************************************************************)
EXTENDS Integers, FiniteSets, SequencesExt

CONSTANTS
  Hosts,        \* the machine: [os, root, tools, lists, media, images]
  Requests      \* what is asked: [demo, list, all, once, names, kind, interval]

\* The name of a disk begins with letters, and the system lists it once.
ASSUME HostsAssumption ==
  \A h \in Hosts :
    /\ h.lists \in Seq((Nat \ {0}) \X Nat) /\ IsInjective(h.lists)
    /\ h.images \subseteq h.media /\ h.media \subseteq ToSet(h.lists)
ASSUME RequestsAssumption == \A r \in Requests : r.interval \in Int

VARIABLES stage,      \* where run is, or how it ended
          host, request,
          disks,      \* what Disks returned
          marked,     \* the disks that are ticked in the picker
          watch,
          source,     \* the backend
          sampling    \* the interval the source uses, and that of the model

startVars == <<stage, host, request, disks, marked, watch, source, sampling>>

Ends == {"running", "listed", "nothing", "error", "crashed"}

StartInit ==
  /\ host \in Hosts
  /\ request \in Requests
  /\ stage = IF request.demo THEN "demo" ELSE "disks"
  /\ disks = <<>> /\ marked = {} /\ watch = <<>>
  /\ source = "none"
  /\ sampling = [source |-> 0, model |-> 0]

-----------------------------------------------------------------------------
(* The disks *)

\* lessDevice: ada2 before ada10 before nvd0.
Less(a, b) == a[1] < b[1] \/ (a[1] = b[1] /\ a[2] < b[2])

\* The disks in S, sorted: the i-th is the one after i - 1 others.
Sorted(S) ==
  [i \in 1 .. Cardinality(S) |->
     CHOOSE d \in S : Cardinality({e \in S : Less(e, d)}) = i - 1]

\* The disks of a list that are in S, in the order of the list.
Kept(list, S) ==
  LET at == {k \in DOMAIN list : list[k] \in S}
  IN [i \in 1 .. Cardinality(at) |->
        list[CHOOSE k \in at : Cardinality({j \in at : j < k}) = i - 1]]

\* Wrong variant: in the order of the system's list.
AsListed == Kept(host.lists, host.media)

\* Disks: those that Info finds media in. No two have one name, so that the
\* order of the system's list does not matter.
Disks == Sorted(ToSet(host.lists) \cap host.media)

NoDisk == <<0, 0>>

\* DeviceName: what may be typed for a disk depends on the system.
DeviceName(arg) ==
  IF host.os = "windows" \/ arg.form \in {"ada0", "/dev/ada0"} THEN arg.disk ELSE NoDisk

Fail == stage' = "error" /\ UNCHANGED <<host, request, disks, marked, watch, source, sampling>>

\* The programs it takes may fail, and elsewhere there are none.
DisksFail == stage = "disks" /\ Fail

Enumerate ==
  /\ stage = "disks"
  /\ host.os # "other"
  /\ disks' = Disks
  /\ stage' = IF disks' = <<>> THEN "error" ELSE IF request.list THEN "listed" ELSE "choose"
  /\ UNCHANGED <<host, request, marked, watch, source, sampling>>

-----------------------------------------------------------------------------
(* choose *)

Watch(chosen) ==
  /\ watch' = chosen
  /\ stage' = IF chosen = <<>> THEN "nothing" ELSE "check"
  /\ UNCHANGED <<host, request, disks, marked, source, sampling>>

\* Wrong variant: only -a answers for the user.
AllAskedFor == request.all

\* Nobody is asked when -a or -once is given.
All == request.all \/ request.once

ChooseNamed ==
  LET named == [k \in DOMAIN request.names |-> DeviceName(request.names[k])]
  IN /\ stage = "choose"
     /\ named # <<>>
     /\ IF ToSet(named) \subseteq ToSet(disks) THEN Watch(named) ELSE Fail

ChooseAll ==
  /\ stage = "choose"
  /\ request.names = <<>> /\ (All \/ Len(disks) = 1)
  /\ Watch(disks)

\* Everything is offered, but an image is not ticked.
OpenPicker ==
  /\ stage = "choose"
  /\ request.names = <<>> /\ ~(All \/ Len(disks) = 1)
  /\ stage' = "pick"
  /\ marked' = ToSet(disks) \ host.images
  /\ UNCHANGED <<host, request, disks, watch, source, sampling>>

Toggle(d) ==
  /\ stage = "pick"
  /\ marked' = IF d \in marked THEN marked \ {d} ELSE marked \cup {d}
  /\ UNCHANGED <<stage, host, request, disks, watch, source, sampling>>

Pick == stage = "pick" /\ Watch(Kept(disks, marked))

AbortPick == stage = "pick" /\ Watch(<<>>)

\* There is no terminal to ask on.
PickFails == stage = "pick" /\ Fail

-----------------------------------------------------------------------------
(* The source *)

\* What CheckSource looks for, and the backends of NewSource.
Needs ==
  CASE host.os = "freebsd" -> {"dtrace"}
    [] host.os = "darwin"  -> IF request.kind = "dtrace" THEN {"dtrace"} ELSE {"fsusage"}
    [] OTHER -> {}

Backend ==
  CASE host.os = "freebsd" -> [auto |-> "dtrace", dtrace |-> "dtrace"]
    [] host.os = "darwin"  -> [auto |-> "fsusage", fsusage |-> "fsusage", dtrace |-> "dtrace"]
    [] OTHER -> [auto |-> "etw", etw |-> "etw"]

CheckSource ==
  /\ stage = "check"
  /\ IF host.root /\ Needs \subseteq host.tools
     THEN stage' = "new" /\ UNCHANGED <<host, request, disks, marked, watch, source, sampling>>
     ELSE Fail

NewSource ==
  /\ stage = "new"
  /\ IF request.kind \in DOMAIN Backend
     THEN /\ source' = Backend[request.kind]
          /\ stage' = "start"
          /\ UNCHANGED <<host, request, disks, marked, watch, sampling>>
     ELSE Fail

OrDefault(interval) == IF interval <= 0 THEN 2 * 100 ELSE interval

\* The source is given whole milliseconds, the model what the flag says.
Start ==
  /\ stage = "start"
  /\ sampling' = [source |-> OrDefault(2 * (request.interval \div 2)),
                  model  |-> OrDefault(request.interval)]
  /\ stage' = "running"
  /\ UNCHANGED <<host, request, disks, marked, watch, source>>

StartFails == stage = "start" /\ Fail

\* Demo makes its disks up, and needs nothing; its ticker takes no interval
\* that is not positive.
Demo ==
  /\ stage = "demo"
  /\ source' = "demo"
  /\ sampling' = [source |-> request.interval, model |-> OrDefault(request.interval)]
  /\ stage' = IF request.interval <= 0 THEN "crashed" ELSE "running"
  /\ UNCHANGED <<host, request, disks, marked, watch>>

-----------------------------------------------------------------------------

\* What blockio does by itself.
Program ==
  \/ DisksFail \/ Enumerate
  \/ ChooseNamed \/ ChooseAll \/ OpenPicker
  \/ CheckSource \/ NewSource \/ Start \/ StartFails \/ Demo

User == (\E d \in ToSet(disks) : Toggle(d)) \/ Pick \/ AbortPick \/ PickFails

Rest == stage \in Ends /\ UNCHANGED startVars

StartNext == Program \/ User \/ Rest

StartSpec == StartInit /\ [][StartNext]_startVars

\* Nothing is asked of the user.
StartFairSpec == StartSpec /\ WF_startVars(Program)

-----------------------------------------------------------------------------
(* Properties *)

\* What runs is what was asked for, whatever the system lists and in whatever
\* order, however the names were typed, and on every way through choose: the
\* disks that were named, in that order; or, with -a or -once or if there is
\* just one, all that have media; or else those that were ticked; of these each
\* once and ada2 before ada10. They are read by the backend that -source names;
\* never without root, after -l, or with nothing to watch; and with an interval
\* of whole milliseconds the source and the model agree on how long a frame is,
\* so that the rates shown are those measured.
StartsAsAsked ==
  (stage = "running" /\ ~request.demo) =>
    /\ ~request.list /\ host.root
    /\ watch # <<>> /\ ToSet(watch) \subseteq host.media
    /\ IF request.names # <<>>
       THEN watch = [k \in DOMAIN request.names |-> request.names[k].disk]
       ELSE /\ \A j, k \in DOMAIN watch : j < k =>
                 watch[j][1] < watch[k][1]
                   \/ (watch[j][1] = watch[k][1] /\ watch[j][2] < watch[k][2])
            /\ ToSet(watch) =
                 IF request.all \/ request.once \/ Cardinality(host.media) = 1
                 THEN host.media ELSE marked
    /\ request.kind \in {"auto", source}
    /\ request.interval % 2 = 0 => sampling.source = sampling.model

\* "prints a single frame to stdout and exits, for scripting" (README.md, line
\* 272): a run that was told what to watch starts or ends without an answer
\* from a user, whatever it finds.
NeverAsks ==
  (request.demo \/ request.list \/ request.all \/ request.once \/ request.names # <<>>)
    ~> stage \in Ends
===============================================================================
