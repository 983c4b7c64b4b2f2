--------------------------------- MODULE Config ---------------------------------
(***************************************************************************)
(* From the command line and the file to the proxies to run: Args of           *)
(* src/src/cli.rs, from_cli, from_toml, validate and load of src/src/config.rs, *)
(* and the choice main makes between them.  What apply_tcp of                   *)
(* src/src/socket_opts.rs asks of the kernel with a proxy's knobs is here too.  *)
(*                                                                         *)
(* The text of an address is a host and a port.  Bare is the host of a text    *)
(* without a colon; a port is the number it spells, or more than 65535 when it  *)
(* spells none, and its leading zeros.  Optional settings are functions whose   *)
(* domain is what was given.                                                    *)
(***************************************************************************)
EXTENDS Integers, Sequences

CONSTANTS Inputs,           \* [args, file]: a command line, and what is at its --config path
          MaxUserTimeout    \* the largest TCP_USER_TIMEOUT the kernel takes, 2^31 - 1

Bare == "bare"
None == <<>>        \* an optional setting that is not given

Parses(port) == port.value \in 0..65535

KeepaliveOrder == <<"keepalive_idle", "keepalive_interval", "keepalive_retries">>
Keepalive == {"keepalive_idle", "keepalive_interval", "keepalive_retries"}
SocketKnobs == Keepalive \cup {"user_timeout_ms"}
defaults ==
    [connect_timeout |-> 3, keepalive_idle |-> 60, keepalive_interval |-> 10,
     keepalive_retries |-> 6, user_timeout_ms |-> 90000, idle_timeout |-> 300,
     half_close_timeout |-> 30, max_connections |-> 32000, max_per_ip |-> 320,
     proxy_protocol |-> FALSE]
Knobs == DOMAIN defaults
SHUTDOWN_GRACE_SECS == 10

ASSUME KernelAssumption == MaxUserTimeout \in Nat /\ MaxUserTimeout >= defaults.user_timeout_ms

\* What clap and serde make sure of: the entries come in order, and the settings of
\* the socket are unsigned.
ASSUME ConfigAssumption ==
    \A in \in Inputs :
      LET entry == in.file.proxies
          tunings == {in.args.tuning, in.file.defaults} \cup {entry[i].tuning : i \in DOMAIN entry}
      IN  /\ entry \in Seq({entry[i] : i \in DOMAIN entry})
          /\ \A t \in tunings : \A k \in SocketKnobs \cap DOMAIN t : t[k] \in Nat

VARIABLES
    input,        \* the member of Inputs this process was started with
    loading,      \* "args", "file", "entries", "ready", "refused" or "usage"
    entries,      \* the resolved proxies, in order
    at,           \* how many of them are checked
    names,        \* load: the names so far
    listens,      \* load: the pairs of protocol and listen address so far
    metrics,      \* metrics_listen, or None
    grace         \* shutdown_grace

configVars == <<input, loading, entries, at, names, listens, metrics, grace>>

ConfigInit ==
    /\ input \in Inputs
    /\ loading = "args" /\ entries = <<>> /\ at = 0
    /\ names = {} /\ listens = {} /\ metrics = None /\ grace = 0

-----------------------------------------------------------------------------
\* A bare port listens on every address.
expand_listen(text) ==
    IF text.host = Bare /\ Parses(text.port) THEN [text EXCEPT !.host = "0.0.0.0"] ELSE text

\* The text has a colon, a host before it and a port after it.
check_host_port(text) == text.host \notin {Bare, ""} /\ Parses(text.port)

\* The first of the settings that gives knob k.
First(k, own, base) == CASE k \in DOMAIN own -> own[k]
                         [] k \in DOMAIN base -> base[k]
                         [] OTHER -> defaults[k]

\* An entry of the file, i counting from 0.
from_toml(i, p, base) ==
    LET listen == expand_listen(p.listen)
    IN  [name     |-> IF p.name = None THEN <<i, listen, p.target>> ELSE p.name,
         listen   |-> listen, target |-> p.target, protocol |-> p.protocol,
         knobs    |-> [k \in Knobs |-> First(k, p.tuning, base)]]

\* The one proxy of the command line; clap fills in the defaults.
from_cli(args) ==
    LET listen == expand_listen(args.listen)
    IN  [name     |-> <<listen, args.target>>,
         listen   |-> listen, target |-> args.target,
         protocol |-> IF args.protocol = None THEN "tcp" ELSE args.protocol[1],
         knobs    |-> [k \in Knobs |-> IF k \in DOMAIN args.tuning THEN args.tuning[k]
                                       ELSE defaults[k]]]

MaxKeepalive(k) == IF k = "keepalive_retries" THEN 127 ELSE 32767

\* A slip: the bounds of the kernel are one more.
MutValidate(p) ==
    /\ check_host_port(p.listen) /\ check_host_port(p.target)
    /\ p.target.port.value # 0
    /\ p.knobs.connect_timeout # 0
    /\ \A k \in Keepalive : p.knobs[k] <= MaxKeepalive(k) + 1

validate(p) ==
    /\ check_host_port(p.listen) /\ check_host_port(p.target)
    /\ p.target.port.value # 0
    /\ p.knobs.connect_timeout # 0
    /\ \A k \in Keepalive : p.knobs[k] <= MaxKeepalive(k)

-----------------------------------------------------------------------------
\* What clap demands: one of --config and --listen, --listen and --target together,
\* and with --config no flag that belongs in the file.
ArgsOk(a) ==
    /\ a.config # (a.listen # None)
    /\ (a.listen # None) = (a.target # None)
    /\ a.config => a.protocol = None /\ DOMAIN a.tuning = {}

Or(flag, key) == IF flag # None THEN flag ELSE key
GraceOf(g) == IF g = None THEN SHUTDOWN_GRACE_SECS ELSE g[1]

UsageError ==
    /\ loading = "args" /\ ~ArgsOk(input.args)
    /\ loading' = "usage"
    /\ UNCHANGED <<input, entries, at, names, listens, metrics, grace>>

\* Single-proxy mode.
FromCli ==
    LET a == input.args
        p == from_cli(a)
    IN  /\ loading = "args" /\ ArgsOk(a) /\ ~a.config
        /\ loading' = IF validate(p) THEN "ready" ELSE "refused"
        /\ entries' = <<p>>
        /\ metrics' = a.metrics /\ grace' = GraceOf(a.grace)
        /\ UNCHANGED <<input, at, names, listens>>

\* load: a file that cannot be read or parsed, or that has no entry.
LoadFile ==
    LET a == input.args
        f == input.file
    IN  /\ loading = "args" /\ ArgsOk(a) /\ a.config
        /\ loading' = IF f.parses /\ f.proxies # <<>> THEN "entries" ELSE "refused"
        /\ entries' = [i \in 1..Len(f.proxies) |-> from_toml(i - 1, f.proxies[i], f.defaults)]
        /\ metrics' = Or(a.metrics, f.metrics)
        /\ grace' = GraceOf(Or(a.grace, f.grace))
        /\ UNCHANGED <<input, at, names, listens>>

\* A slip: the protocol is not part of the key.
MutUnheardOf(p) == p.name \notin names /\ p.listen \notin {l[2] : l \in listens}

UnheardOf(p) == p.name \notin names /\ <<p.protocol, p.listen>> \notin listens

\* The loop of load: the next entry is sane, its name and its address are new.
CheckEntry ==
    LET p == entries[at + 1]
    IN  /\ loading = "entries" /\ validate(p) /\ UnheardOf(p)
        /\ names' = names \cup {p.name}
        /\ listens' = listens \cup {<<p.protocol, p.listen>>}
        /\ at' = at + 1
        /\ loading' = IF at' = Len(entries) THEN "ready" ELSE "entries"
        /\ UNCHANGED <<input, entries, metrics, grace>>

RefuseEntry ==
    LET p == entries[at + 1]
    IN  /\ loading = "entries" /\ ~(validate(p) /\ UnheardOf(p))
        /\ loading' = "refused"
        /\ UNCHANGED <<input, entries, at, names, listens, metrics, grace>>

Load == UsageError \/ FromCli \/ LoadFile \/ CheckEntry \/ RefuseEntry

-----------------------------------------------------------------------------
(* apply_tcp: the knobs that end up as options of a socket.                   *)

\* A knob of 0 leaves its option to the system; without keepalive_idle there is no
\* keepalive (L1) at all.
Asked(knobs) ==
    {k \in SocketKnobs : knobs[k] > 0 /\ (k \in Keepalive => knobs["keepalive_idle"] > 0)}

\* What Linux takes; anything else is EINVAL.
KernelTakes(k, value) ==
    \/ k \in {"keepalive_idle", "keepalive_interval"} /\ 1 <= value /\ value <= 32767
    \/ k = "keepalive_retries" /\ 1 <= value /\ value <= 127
    \/ k = "user_timeout_ms" /\ 0 <= value /\ value <= MaxUserTimeout

\* set_tcp_keepalive sets its options in order and gives up at the first that is
\* refused; TCP_USER_TIMEOUT (L2) is set on its own.  A failure is only logged.
apply_tcp(knobs) ==
    {k \in Asked(knobs) \cap Keepalive :
       \E n \in 1..3 : /\ KeepaliveOrder[n] = k
                       /\ \A m \in 1..n : KeepaliveOrder[m] \in Asked(knobs) =>
                            KernelTakes(KeepaliveOrder[m], knobs[KeepaliveOrder[m]])}
      \cup {k \in Asked(knobs) \cap {"user_timeout_ms"} : KernelTakes(k, knobs[k])}

-----------------------------------------------------------------------------
Unnamed(p) == [k \in DOMAIN p \ {"name"} |-> p[k]]

\* Checking entry by entry accepts exactly the files whose entries are all sane and
\* no two of which share a name, given or generated, or an address of one protocol;
\* and a proxy given by flags is resolved and judged like a file of that one entry.
LoadExact ==
    LET a == input.args
        same == from_toml(0, [name |-> None, listen |-> a.listen, target |-> a.target,
                              protocol |-> IF a.protocol = None THEN "tcp" ELSE a.protocol[1],
                              tuning |-> a.tuning], <<>>)
        N == 1..Len(entries)
    IN  loading \in {"ready", "refused"} =>
          /\ loading = "ready" <=>
               /\ N # {} /\ (a.config => input.file.parses)
               /\ \A i \in N : validate(entries[i])
               /\ \A i, j \in N : i # j =>
                    /\ entries[i].name # entries[j].name
                    /\ entries[i].protocol # entries[j].protocol
                         \/ entries[i].listen # entries[j].listen
          /\ ~a.config => /\ Unnamed(entries[1]) = Unnamed(same)
                          /\ loading = "ready" <=> validate(same)

\* "The kernel refuses larger keepalive values (EINVAL), which would only surface as
\* a warning on every connection while L1 stays off": whichever layer its knobs come
\* from, a running proxy has every option it asks for, all of L1 included.  Not so L2:
\* a user_timeout_ms beyond the kernel's int passes validate, and that one option,
\* with no effect on the others, is the only one that is ever missing.
OptionsTake ==
    loading = "ready" => \A i \in 1..Len(entries) :
      LET knobs == entries[i].knobs
      IN  \A k \in Asked(knobs) \ apply_tcp(knobs) :
            k = "user_timeout_ms" /\ knobs[k] > MaxUserTimeout
=============================================================================
