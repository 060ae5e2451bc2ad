------------------------------ MODULE MCStartup ------------------------------
(* The instance of Startup that TLC checks. *)
EXTENDS Startup

ada2  == <<1, 2>>
ada10 == <<1, 10>>
nvd0  == <<2, 0>>
cd0   == <<3, 0>>   \* without media in all of them

Machine(os, root, tools, media, images) ==
  [os |-> os, root |-> root, tools |-> tools,
   lists |-> <<nvd0, ada10, cd0, ada2>>, media |-> media, images |-> images]

MCHosts ==
  {Machine(os, root, tools, media, {nvd0} \cap media) :
     os \in {"freebsd", "darwin", "windows", "other"}, root \in BOOLEAN,
     tools \in {{}, {"dtrace"}, {"fsusage"}},
     media \in {{}, {ada2}, {ada2, ada10, nvd0}}}

Request(flags, names, kind, interval) ==
  [demo |-> "demo" \in flags, list |-> "list" \in flags, all |-> "all" \in flags,
   once |-> "once" \in flags, names |-> names, kind |-> kind, interval |-> interval]

Named(form, disk) == [form |-> form, disk |-> disk]

Names ==
  {<<>>, <<Named("ada0", cd0)>>,
   <<Named("/dev/ada0", ada10), Named("ada0", ada2), Named("ada0", ada10)>>,
   <<Named("ada0", ada2), Named("PhysicalDrive0", ada10)>>}

\* Every way to choose, every kind, and intervals of 100, 1, 0.5 and 1.5 ms,
\* of none and of less than none.
MCRequests ==
  {Request(flags, names, "auto", 200) :
     flags \in {{}, {"demo"}, {"list"}, {"all"}, {"once"}, {"list", "all"}}, names \in Names}
    \cup {Request({"all"}, <<>>, kind, 200) : kind \in {"dtrace", "fsusage", "etw"}}
    \cup {Request(flags, <<>>, "auto", interval) :
            flags \in {{"once"}, {"demo"}}, interval \in {200, 2, 1, 3, 0, -1, -2}}
==============================================================================
