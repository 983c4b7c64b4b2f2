------------------------------ MODULE ConfigProofs ------------------------------
(***************************************************************************)
(* Loading a configuration accepts exactly the sane ones, whatever the command *)
(* line and however long the file: lemmas about the steps of Config, from      *)
(* which SupervisorProofs concludes for the whole process.                     *)
(***************************************************************************)
EXTENDS Config, SequenceTheorems, TLAPS

\* What the entries are resolved from.
FileEntries ==
    [i \in 1..Len(input.file.proxies) |->
       from_toml(i - 1, input.file.proxies[i], input.file.defaults)]

\* Two entries do not claim the same name or the same socket.
Distinct(p, q) ==
    p.name # q.name /\ (p.protocol # q.protocol \/ p.listen # q.listen)

\* The first n entries passed, and nothing else is remembered of them.
Passed(n) ==
    /\ n \in 0..Len(entries)
    /\ \A i \in 1..n : validate(entries[i])
    /\ \A i, j \in 1..n : i # j => Distinct(entries[i], entries[j])
    /\ names = {entries[i].name : i \in 1..n}
    /\ listens = {<<entries[i].protocol, entries[i].listen>> : i \in 1..n}

\* Before the command line was accepted there is nothing to run.
Nothing == entries = <<>> /\ metrics = None

\* How far loading is, and on what grounds it ended.
Loading ==
    LET a == input.args
        f == input.file
    IN  \/ loading \in {"args", "usage"} /\ Nothing /\ at = 0 /\ names = {} /\ listens = {}
        \/ /\ ~a.config /\ entries = <<from_cli(a)>>
           /\ loading = IF validate(from_cli(a)) THEN "ready" ELSE "refused"
        \/ /\ a.config /\ entries = FileEntries
           /\ \/ loading = "refused" /\ ~(f.parses /\ f.proxies # <<>>)
              \/ /\ f.parses /\ f.proxies # <<>> /\ Passed(at)
                 /\ \/ loading = "entries" /\ at < Len(entries)
                    \/ loading = "ready" /\ at = Len(entries)
                    \/ /\ loading = "refused" /\ at < Len(entries)
                       /\ ~(validate(entries[at + 1]) /\ UnheardOf(entries[at + 1]))

ConfigInv == input \in Inputs /\ Loading

-----------------------------------------------------------------------------
\* The entries of a file are as many as it has tables.
LEMMA FileLength ==
  ASSUME input \in Inputs
  PROVE  /\ Len(input.file.proxies) \in Nat
         /\ input.file.proxies = <<>> <=> Len(input.file.proxies) = 0
         /\ Len(FileEntries) = Len(input.file.proxies)
         /\ DOMAIN input.file.proxies = 1..Len(input.file.proxies)
  <1> DEFINE ps == input.file.proxies
             S == {ps[i] : i \in DOMAIN ps}
             R == {FileEntries[i] : i \in 1..Len(ps)}
  <1>1. ps \in Seq(S)
    BY ConfigAssumption
  <1>2. Len(ps) \in Nat /\ DOMAIN ps = 1..Len(ps)
    BY <1>1, LenProperties
  <1>3. ps = <<>> <=> Len(ps) = 0
    BY <1>1, EmptySeq
  <1>4. FileEntries \in [1..Len(ps) -> R]
    BY DEF FileEntries
  <1>5. FileEntries \in Seq(R)
    BY <1>2, <1>4, SeqDef
  <1>6. DOMAIN FileEntries = 1..Len(ps)
    BY <1>4
  <1>7. Len(FileEntries) = Len(ps)
    BY <1>2, <1>5, <1>6, LenProperties
  <1>8. QED
    BY <1>2, <1>3, <1>7

\* Entries have positions, however they came to be.
LEMMA EntriesLength == ConfigInv => Len(entries) \in Nat
  BY FileLength DEF ConfigInv, Loading, Nothing

\* A process starts before its arguments are looked at.
LEMMA ConfigStarts == ConfigInit => ConfigInv
  BY DEF ConfigInit, ConfigInv, Loading, Nothing

\* The rest of the process leaves the loading alone.
LEMMA ConfigStays == ConfigInv /\ UNCHANGED configVars => ConfigInv'
  BY DEF ConfigInv, Loading, Nothing, FileEntries, Passed, Distinct, UnheardOf, configVars

\* A file's first entry is yet to be checked.
LEMMA ConfigReads == ConfigInv /\ LoadFile => ConfigInv'
  <1> SUFFICES ASSUME ConfigInv, LoadFile PROVE ConfigInv'
    OBVIOUS
  <1> DEFINE f == input.file
  <1>1. input' = input /\ input \in Inputs /\ at' = at /\ names' = names /\ listens' = listens
    BY DEF LoadFile, ConfigInv
  <1>2. at = 0 /\ names = {} /\ listens = {}
    BY DEF LoadFile, ConfigInv, Loading
  <1>3. entries' = FileEntries /\ FileEntries' = FileEntries /\ input.args.config
    BY <1>1 DEF LoadFile, FileEntries
  <1>4. CASE f.parses /\ f.proxies # <<>>
    <2>1. loading' = "entries"
      BY <1>4 DEF LoadFile
    <2>2. Len(entries') \in Nat /\ Len(entries') > 0
      BY <1>1, <1>3, <1>4, FileLength
    <2>3. Passed(at)'
      BY <1>1, <1>2, <2>2 DEF Passed
    <2>4. QED
      BY <1>1, <1>2, <1>3, <1>4, <2>1, <2>2, <2>3 DEF ConfigInv, Loading
  <1>5. CASE ~(f.parses /\ f.proxies # <<>>)
    BY <1>1, <1>3, <1>5 DEF LoadFile, ConfigInv, Loading
  <1>6. QED
    BY <1>4, <1>5

\* One more entry: new to the names and addresses is new to every earlier entry.
LEMMA ConfigChecks == ConfigInv /\ CheckEntry => ConfigInv'
  <1> SUFFICES ASSUME ConfigInv, CheckEntry PROVE ConfigInv'
    OBVIOUS
  <1> DEFINE p == entries[at + 1]
             n == at + 1
  <1>1. /\ input' = input /\ input \in Inputs /\ entries' = entries /\ at' = n
        /\ names' = names \cup {p.name}
        /\ listens' = listens \cup {<<p.protocol, p.listen>>}
        /\ validate(p) /\ UnheardOf(p) /\ loading = "entries"
        /\ loading' = IF at' = Len(entries) THEN "ready" ELSE "entries"
    BY DEF CheckEntry, ConfigInv
  <1>2. /\ input.args.config /\ entries = FileEntries
        /\ input.file.parses /\ input.file.proxies # <<>>
        /\ Passed(at) /\ at < Len(entries)
    BY <1>1 DEF ConfigInv, Loading
  <1>3. Len(entries) \in Nat /\ at \in Nat /\ n \in 0..Len(entries) /\ 1..n = (1..at) \cup {n}
    BY <1>2, EntriesLength DEF Passed
  <1>4. \A i \in 1..at : Distinct(entries[i], p) /\ Distinct(p, entries[i])
    BY <1>1, <1>2 DEF Passed, UnheardOf, Distinct
  <1>5. \A i, j \in 1..n : i # j => Distinct(entries[i], entries[j])
    BY <1>2, <1>3, <1>4 DEF Passed
  <1>6. \A i \in 1..n : validate(entries[i])
    BY <1>1, <1>2, <1>3 DEF Passed
  <1>7. names' = {entries[i].name : i \in 1..n}
    BY <1>1, <1>2, <1>3 DEF Passed
  <1>8. listens' = {<<entries[i].protocol, entries[i].listen>> : i \in 1..n}
    BY <1>1, <1>2, <1>3 DEF Passed
  <1>9. Passed(at)'
    BY <1>1, <1>3, <1>5, <1>6, <1>7, <1>8 DEF Passed
  <1>10. FileEntries' = FileEntries
    BY <1>1 DEF FileEntries
  <1>11. (loading' = "entries" /\ at' < Len(entries')) \/ (loading' = "ready" /\ at' = Len(entries'))
    BY <1>1, <1>3
  <1>12. QED
    BY <1>1, <1>2, <1>9, <1>10, <1>11 DEF ConfigInv, Loading

\* Every step of load keeps what is known of it.
LEMMA ConfigLoads == ConfigInv /\ Load => ConfigInv'
  <1> SUFFICES ASSUME ConfigInv, Load PROVE ConfigInv'
    OBVIOUS
  <1>1. CASE UsageError
    BY <1>1 DEF UsageError, ConfigInv, Loading, Nothing
  <1>2. CASE FromCli
    BY <1>2 DEF FromCli, ConfigInv, Loading
  <1>3. CASE RefuseEntry
    BY <1>3 DEF RefuseEntry, ConfigInv, Loading, Passed, FileEntries, UnheardOf
  <1>4. QED
    BY <1>1, <1>2, <1>3, ConfigReads, ConfigChecks DEF Load

-----------------------------------------------------------------------------
\* The loop and the definition: a refused file has an entry that is not sane or
\* clashes with an earlier one.
LEMMA FileExact ==
  ASSUME ConfigInv, input.args.config, loading \in {"ready", "refused"}
  PROVE  loading = "ready" <=>
           /\ 1..Len(entries) # {} /\ input.file.parses
           /\ \A i \in 1..Len(entries) : validate(entries[i])
           /\ \A i, j \in 1..Len(entries) : i # j => Distinct(entries[i], entries[j])
  <1>1. entries = FileEntries /\ Len(entries) \in Nat
    BY EntriesLength DEF ConfigInv, Loading
  <1>2. input.file.proxies = <<>> <=> Len(entries) = 0
    BY <1>1, FileLength DEF ConfigInv
  <1>3. CASE loading = "ready"
    <2>1. Passed(at) /\ at = Len(entries) /\ input.file.parses /\ input.file.proxies # <<>>
      BY <1>3 DEF ConfigInv, Loading
    <2>2. QED
      BY <1>1, <1>2, <1>3, <2>1 DEF Passed
  <1>4. CASE loading = "refused" /\ ~(input.file.parses /\ input.file.proxies # <<>>)
    BY <1>1, <1>2, <1>4
  <1>5. CASE loading = "refused" /\ input.file.parses /\ input.file.proxies # <<>>
    <2> DEFINE n == at + 1
    <2>1. Passed(at) /\ at < Len(entries) /\ ~(validate(entries[n]) /\ UnheardOf(entries[n]))
      BY <1>5 DEF ConfigInv, Loading
    <2>2. n \in 1..Len(entries) /\ \A i \in 1..at : i \in 1..Len(entries) /\ i # n
      BY <1>1, <2>1 DEF Passed
    <2>3. CASE ~validate(entries[n])
      BY <1>5, <2>2, <2>3
    <2>4. CASE entries[n].name \in names
      <3>1. PICK i \in 1..at : entries[i].name = entries[n].name
        BY <2>1, <2>4 DEF Passed
      <3>2. ~Distinct(entries[i], entries[n])
        BY <3>1 DEF Distinct
      <3>3. QED
        BY <1>5, <2>2, <3>2
    <2>5. CASE <<entries[n].protocol, entries[n].listen>> \in listens
      <3>1. PICK i \in 1..at :
              <<entries[i].protocol, entries[i].listen>> = <<entries[n].protocol, entries[n].listen>>
        BY <2>1, <2>5 DEF Passed
      <3>2. ~Distinct(entries[i], entries[n])
        BY <3>1 DEF Distinct
      <3>3. QED
        BY <1>5, <2>2, <3>2
    <2>6. QED
      BY <2>1, <2>3, <2>4, <2>5 DEF UnheardOf
  <1>6. QED
    BY <1>3, <1>4, <1>5

\* The proxy of the command line, written as an entry of a file without defaults.
AsEntry(a) ==
    from_toml(0, [name |-> None, listen |-> a.listen, target |-> a.target,
                  protocol |-> IF a.protocol = None THEN "tcp" ELSE a.protocol[1],
                  tuning |-> a.tuning], <<>>)

\* Both ways to give a proxy resolve its address, protocol and knobs alike.
LEMMA CliAsEntry ==
  ASSUME NEW a
  PROVE  /\ Unnamed(from_cli(a)) = Unnamed(AsEntry(a))
         /\ validate(from_cli(a)) <=> validate(AsEntry(a))
  <1> DEFINE p == from_cli(a)
             q == AsEntry(a)
  <1>1. p.knobs = q.knobs
    BY DEF from_cli, AsEntry, from_toml, First
  <1>2. p.listen = q.listen /\ p.target = q.target /\ p.protocol = q.protocol
    BY DEF from_cli, AsEntry, from_toml
  <1>3. /\ DOMAIN p = {"name", "listen", "target", "protocol", "knobs"}
        /\ DOMAIN q = {"name", "listen", "target", "protocol", "knobs"}
    BY DEF from_cli, AsEntry, from_toml
  <1>4. \A k \in DOMAIN p \ {"name"} : p[k] = q[k]
    BY <1>1, <1>2, <1>3
  <1>5. Unnamed(p) = Unnamed(q)
    BY <1>3, <1>4 DEF Unnamed
  <1>6. validate(p) <=> validate(q)
    BY <1>1, <1>2 DEF validate
  <1>7. QED
    BY <1>5, <1>6

\* Where loading ended, it ended rightly.
LEMMA ConfigExact == ConfigInv => LoadExact
  <1> DEFINE a == input.args
             N == 1..Len(entries)
  <1> SUFFICES ASSUME ConfigInv, loading \in {"ready", "refused"} PROVE LoadExact
    BY DEF LoadExact
  <1>1. CASE a.config
    BY <1>1, FileExact DEF LoadExact, Distinct
  <1>2. CASE ~a.config
    <2>1. /\ entries = <<from_cli(a)>>
          /\ loading = IF validate(from_cli(a)) THEN "ready" ELSE "refused"
      BY <1>2 DEF ConfigInv, Loading
    <2>2. N = {1} /\ entries[1] = from_cli(a)
      BY <2>1
    <2>3. loading = "ready" <=> validate(AsEntry(a))
      BY <2>1, CliAsEntry
    <2>4. Unnamed(entries[1]) = Unnamed(AsEntry(a))
      BY <2>2, CliAsEntry
    <2>5. QED
      BY <1>2, <2>1, <2>2, <2>3, <2>4 DEF LoadExact, AsEntry
  <1>3. QED
    BY <1>1, <1>2

-----------------------------------------------------------------------------
\* Whichever layer gives them, the knobs of the socket are numbers.
LEMMA KnobsAreNumbers ==
  ASSUME ConfigInv, NEW i \in 1..Len(entries), NEW k \in SocketKnobs
  PROVE  entries[i].knobs[k] \in Nat
  <1> DEFINE a == input.args
             f == input.file
  <1>1. k \in Knobs /\ defaults[k] \in Nat
    BY DEF SocketKnobs, Keepalive, Knobs, defaults
  <1>2. CASE entries = <<from_cli(a)>>
    <2>1. i = 1
      BY <1>2
    <2>2. entries[i].knobs[k] = IF k \in DOMAIN a.tuning THEN a.tuning[k] ELSE defaults[k]
      BY <1>1, <1>2, <2>1 DEF from_cli
    <2>3. k \in DOMAIN a.tuning => a.tuning[k] \in Nat
      BY ConfigAssumption DEF ConfigInv
    <2>4. QED
      BY <1>1, <2>2, <2>3
  <1>3. CASE entries = FileEntries
    <2>1. i \in 1..Len(f.proxies) /\ i \in DOMAIN f.proxies
      BY <1>3, FileLength DEF ConfigInv
    <2>2. entries[i].knobs[k] = First(k, f.proxies[i].tuning, f.defaults)
      BY <1>1, <1>3, <2>1 DEF FileEntries, from_toml
    <2>3. k \in DOMAIN f.proxies[i].tuning => f.proxies[i].tuning[k] \in Nat
      BY <2>1, ConfigAssumption DEF ConfigInv
    <2>4. k \in DOMAIN f.defaults => f.defaults[k] \in Nat
      BY ConfigAssumption DEF ConfigInv
    <2>5. QED
      BY <1>1, <2>2, <2>3, <2>4 DEF First
  <1>4. CASE entries = <<>>
    BY <1>4
  <1>5. QED
    BY <1>2, <1>3, <1>4 DEF ConfigInv, Loading, Nothing

\* What was validated is within the kernel's bounds.
LEMMA ValidIsTaken ==
  ASSUME NEW p, validate(p), NEW k \in Keepalive, p.knobs[k] \in Nat, p.knobs[k] > 0
  PROVE  KernelTakes(k, p.knobs[k])
  <1>1. p.knobs[k] <= MaxKeepalive(k)
    BY DEF validate
  <1>2. CASE k = "keepalive_retries"
    BY <1>1, <1>2 DEF KernelTakes, MaxKeepalive
  <1>3. CASE k \in {"keepalive_idle", "keepalive_interval"}
    <2>1. k # "keepalive_retries" /\ k # "user_timeout_ms"
      BY <1>3
    <2>2. 1 <= p.knobs[k] /\ p.knobs[k] <= 32767
      BY <1>1, <2>1 DEF MaxKeepalive
    <2>3. QED
      BY <1>3, <2>2 DEF KernelTakes
  <1>4. QED
    BY <1>2, <1>3 DEF Keepalive

\* What is accepted was validated.
LEMMA ReadyIsValid ==
  ASSUME ConfigInv, loading = "ready", NEW i \in 1..Len(entries)
  PROVE  validate(entries[i])
  <1>1. CASE input.args.config
    BY <1>1, FileExact
  <1>2. CASE ~input.args.config
    <2>1. entries = <<from_cli(input.args)>> /\ validate(from_cli(input.args))
      BY <1>2 DEF ConfigInv, Loading
    <2>2. i = 1
      BY <2>1
    <2>3. QED
      BY <2>1, <2>2
  <1>3. QED
    BY <1>1, <1>2

\* Every keepalive option asked for is taken, so set_tcp_keepalive gets to the last.
LEMMA ConfigOptions == ConfigInv => OptionsTake
  <1> SUFFICES ASSUME ConfigInv, loading = "ready", NEW i \in 1..Len(entries),
                      NEW k \in Asked(entries[i].knobs) \ apply_tcp(entries[i].knobs)
               PROVE  k = "user_timeout_ms" /\ entries[i].knobs[k] > MaxUserTimeout
    BY DEF OptionsTake
  <1> DEFINE knobs == entries[i].knobs
  <1>1. \A j \in Asked(knobs) : j \in SocketKnobs /\ knobs[j] \in Nat /\ knobs[j] > 0
    BY KnobsAreNumbers DEF Asked
  <1>2. \A j \in Asked(knobs) \cap Keepalive : KernelTakes(j, knobs[j])
    BY <1>1, ValidIsTaken, ReadyIsValid
  <1>3. CASE k \in Keepalive
    <2>1. PICK n \in 1..3 : KeepaliveOrder[n] = k
      BY <1>3 DEF Keepalive, KeepaliveOrder
    <2>2. \A m \in 1..n : KeepaliveOrder[m] \in Keepalive
      BY DEF Keepalive, KeepaliveOrder
    <2>3. k \in apply_tcp(knobs)
      BY <1>2, <1>3, <2>1, <2>2 DEF apply_tcp
    <2>4. QED
      BY <2>3
  <1>4. CASE k = "user_timeout_ms"
    <2>1. ~KernelTakes(k, knobs[k])
      BY <1>4 DEF apply_tcp
    <2>2. ~(0 <= knobs[k] /\ knobs[k] <= MaxUserTimeout)
      BY <1>4, <2>1 DEF KernelTakes
    <2>3. QED
      BY <1>1, <1>4, <2>2, KernelAssumption
  <1>5. QED
    BY <1>1, <1>3, <1>4 DEF SocketKnobs
=============================================================================
