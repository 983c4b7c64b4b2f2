------------------------------ MODULE MCSupervisor ------------------------------
(* Command lines and files that differ in what the loaders look at, one thing at *)
(* a time: the spelling of addresses, names, protocols, a knob set in either     *)
(* layer at its bounds, flags that exclude each other, and the global settings.  *)
(* Files that are accepted run as processes of up to two proxies and an exporter; *)
(* a third entry is there for the files it spoils, whichever entry it repeats.   *)
EXTENDS Supervisor

Text(host, value) == [host |-> host, port |-> [value |-> value, zeros |-> 0]]
Padded(text) == [text EXCEPT !.port.zeros = 1]
MCResolve == [h \in {"0.0.0.0", "127.0.0.1", "localhost"} |->
                IF h = "localhost" THEN "127.0.0.1" ELSE h]

Any == Text("0.0.0.0", 587)
Loop == Text("127.0.0.1", 588)
Target == Text("localhost", 25)
Entry(name, listen, target, protocol, tuning) ==
    [name |-> name, listen |-> listen, target |-> target, protocol |-> protocol,
     tuning |-> tuning]
Plain(listen) == Entry(None, listen, Target, "tcp", <<>>)

File(proxies) == [parses |-> TRUE, proxies |-> proxies, defaults |-> <<>>,
                  metrics |-> None, grace |-> <<1>>]
NoFile == [File(<<>>) EXCEPT !.parses = FALSE]
Flags == [config |-> FALSE, listen |-> None, target |-> None, protocol |-> None,
          tuning |-> <<>>, metrics |-> None, grace |-> None]
WithFile(file) == [args |-> [Flags EXCEPT !.config = TRUE], file |-> file]
WithFlags(args) == [args |-> args, file |-> NoFile]

Listens == {Any, Padded(Any), Loop, Text("localhost", 588), Text("localhost", 0),
            Text(Bare, 587), Text(Bare, 70000), Text("", 587)}
Names == {None, <<"web">>, <<0, Any, Target>>}
Pairs == {<<Entry(n1, l1, Target, "tcp", <<>>), Entry(n2, l2, Target, proto, <<>>)>> :
            n1 \in {None, <<"web">>}, n2 \in Names, l1 \in {Any, Loop}, l2 \in Listens,
            proto \in {"tcp", "udp"}}

\* A third entry that repeats the name or the address of the first, not of the second.
Triples == {<<Entry(<<"web">>, Any, Target, "tcp", <<>>), Plain(Loop), third>> :
              third \in {Entry(<<"web">>, Text("localhost", 589), Target, "udp", <<>>),
                         Plain(Any)}}

Tuned == {[k \in {knob} |-> v] : knob \in Keepalive, v \in {0, 127, 128, 32767, 32768}}
           \cup {[k \in {"connect_timeout"} |-> v] : v \in {0, 1}}
           \cup {[k \in {"user_timeout_ms"} |-> v] :
                   v \in {0, MaxUserTimeout, MaxUserTimeout + 1}}
Layered == {[File(<<[Plain(Any) EXCEPT !.tuning = own]>>) EXCEPT !.defaults = base] :
              own \in Tuned \cup {<<>>}, base \in Tuned \cup {<<>>}}
Targets == {Target, Text("localhost", 0), Text("", 25), Text(Bare, 25)}

Single == {[Flags EXCEPT !.listen = l, !.target = t, !.tuning = k, !.protocol = proto,
                         !.grace = <<0>>] :
             l \in {Any, Text(Bare, 587), Text("", 587)}, t \in Targets,
             k \in Tuned \cup {<<>>}, proto \in {None, <<"udp">>}}
Misused == {[Flags EXCEPT !.config = c, !.listen = l, !.target = t, !.tuning = k] :
              c \in BOOLEAN, l \in {None, Any}, t \in {None, Target},
              k \in {<<>>, [j \in {"idle_timeout"} |-> 5]}}

\* The global settings: flags over the file.
Both == File(<<Plain(Any), Plain(Loop)>>)
Globals(m, g, h) == [args |-> [Flags EXCEPT !.config = TRUE, !.metrics = m, !.grace = g],
                     file |-> [Both EXCEPT !.metrics = <<>>, !.grace = h]]
Exported == Text("localhost", 9090)
Global == {Globals(m, <<0>>, <<1>>) : m \in {None, Exported, Text(Bare, 9090), Any}}
            \cup {Globals(Exported, g, h) : g \in {None, <<0>>, <<2>>}, h \in {None, <<1>>}}

MCInputs == Global \cup {WithFlags(a) : a \in Single \cup Misused}
              \cup {WithFile(f) : f \in {NoFile, File(<<>>)} \cup Layered
                                         \cup {File(p) : p \in Pairs \cup Triples}
                                         \cup {File(<<[Plain(Any) EXCEPT !.target = t]>>) :
                                                 t \in Targets}}
=============================================================================
