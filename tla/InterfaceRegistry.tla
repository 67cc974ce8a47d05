-------------------------- MODULE InterfaceRegistry --------------------------
(***************************************************************************)
(* The interfaces of one agent. A discovery compares what the agent says   *)
(* of itself with the rows; an admin confirms what it called new, some     *)
(* time later and maybe while somebody else does the same. The table has   *)
(* no unique key: what is registered is told apart by code alone, once in  *)
(* the comparison and once in the registration.                            *)
(***************************************************************************)
EXTENDS Naturals, Sequences, FiniteSets, FiniteSetsExt, SequencesExt

CONSTANTS
    Registrars,  \* admins at work
    Manifests,   \* what the agent may declare
    Entered,     \* what a person enters by hand
    MaxRows      \* bound: rows

VARIABLES
    rows,        \* agent_interface, in the order of their ids
    syncing      \* the discovery each admin looks at, or the registration he has open

registryVars == <<rows, syncing>>

NoSync == [stage |-> "none"]
\* A name is what it began as and the numbers appended to it.
Named(base) == <<base>>
\* Names and lists of interfaces have an end; what a person enters has every field of a row.
IsList(s) == Len(s) \in Nat /\ s = [k \in 1..Len(s) |-> s[k]]
ASSUME RegistryAssumption ==
    /\ \A m \in Manifests : /\ IsList(m.interfaces)
                            /\ \A k \in DOMAIN m.interfaces : IsList(m.interfaces[k].name)
    /\ \A i \in Entered : IsList(i.name)
    /\ \A i \in Entered : i \in [name : {i.name}, method : {i.method}, path : {i.path}, type : {i.type},
                                 enabled : {i.enabled}]

\* Only the methods written in capitals pass the pattern of a registration.
Pattern == {"GET", "POST", "PUT", "DELETE", "PATCH"}
Upper(method) == IF method = "post" THEN "POST" ELSE method
IfaceKey(i) == <<Upper(i.method), i.path>>
KeysOf(is) == {IfaceKey(is[k]) : k \in DOMAIN is}
NamesOf(is) == {is[k].name : k \in DOMAIN is}
Twice(is) == \E j, k \in DOMAIN is : j # k /\ IfaceKey(is[j]) = IfaceKey(is[k])
-----------------------------------------------------------------------------
\* parse_manifest, and parse_manifest_v2, which looks for an interface to evaluate but not for
\* one that is declared twice.
Parsed(m) ==
    /\ \A k \in DOMAIN m.interfaces : m.interfaces[k].llm => m.interfaces[k].type # "none"
    /\ IF m.v2 THEN \E k \in DOMAIN m.interfaces : m.interfaces[k].llm
       ELSE ~Twice(m.interfaces)

\* diff_manifest: new ones, those known whose name or type differs, and the rows that are gone.
Added(m, known) ==
    LET new(list, i) == IF i.llm /\ IfaceKey(i) \notin KeysOf(known) THEN Append(list, i) ELSE list
    IN  FoldLeft(new, <<>>, m.interfaces)
\* Of several rows with one key the last is compared.
RowOf(i, known) == known[Max({k \in DOMAIN known : IfaceKey(known[k]) = IfaceKey(i)})]
Differing(m, known) ==
    {i \in ToSet(m.interfaces) : /\ i.llm /\ IfaceKey(i) \in KeysOf(known)
                                 /\ <<i.name, i.type>> # <<RowOf(i, known).name, RowOf(i, known).type>>}
Gone(m, known) ==
    {k \in DOMAIN known : known[k].enabled /\ IfaceKey(known[k]) \notin KeysOf(m.interfaces)}

\* unique_name: the first number from 2 on that makes it unlike all others.
UniqueName(name, taken) ==
    IF name \notin taken THEN name
    ELSE Append(name, Min({n \in 2..(Cardinality(taken) + 2) : Append(name, n) \notin taken}))

\* Mutation: a row entered by hand in small letters is not recognised.
KeysAsWritten(known) == {<<known[k].method, known[k].path>> : k \in DOMAIN known}

\* sync_interfaces: the rows are looked up once, the names grow with every row that is made.
Known(existing) == KeysOf(existing)
Register(made, item, existing) ==
    IF IfaceKey(item) \in Known(existing) THEN made
    ELSE Append(made, [name |-> UniqueName(item.name, NamesOf(existing) \cup NamesOf(made)),
                       method |-> Upper(item.method), path |-> item.path, type |-> item.type,
                       enabled |-> TRUE])
NewRows(items, existing) ==
    LET register(made, item) == Register(made, item, existing)
    IN  FoldLeft(register, <<>>, items)
-----------------------------------------------------------------------------
RegistryInit == rows = <<>> /\ syncing = [p \in Registrars |-> NoSync]

Disturbed == [p \in Registrars |-> IF syncing[p].stage = "open" THEN [syncing[p] EXCEPT !.alone = FALSE]
                                                              ELSE syncing[p]]
\* POST, PUT and DELETE of one interface; the last leaves the row, and nothing enables it again.
CreateInterface == \E i \in Entered :
    /\ Len(rows) < MaxRows
    /\ rows' = Append(rows, [i EXCEPT !.enabled = TRUE])
    /\ syncing' = Disturbed
UpdateInterface == \E k \in DOMAIN rows, i \in Entered :
    /\ rows' = [rows EXCEPT ![k] = [i EXCEPT !.enabled = rows[k].enabled]]
    /\ syncing' = Disturbed
DeleteInterface == \E k \in DOMAIN rows :
    /\ rows' = [rows EXCEPT ![k].enabled = FALSE]
    /\ UNCHANGED syncing

\* discover_agent writes nothing: what it calls new, or some of it, waits to be confirmed.
Discover(p) == \E m \in Manifests : \E items \in {Added(m, rows)} \cup {<<i>> : i \in ToSet(Added(m, rows))} :
    /\ syncing[p] = NoSync /\ Parsed(m) /\ items # <<>>
    /\ syncing' = [syncing EXCEPT ![p] = [stage |-> "offered", items |-> items]]
    /\ UNCHANGED rows
\* A registration works with the rows it sees at its beginning.
BeginSync(p) ==
    /\ syncing[p].stage = "offered"
    /\ \A i \in ToSet(syncing[p].items) : i.method \in Pattern
    /\ syncing' = [Disturbed EXCEPT ![p] =
           [stage |-> "open", items |-> syncing[p].items, existing |-> rows,
            alone |-> \A q \in Registrars : syncing[q].stage # "open"]]
    /\ UNCHANGED rows
CommitSync(p) ==
    /\ syncing[p].stage = "open"
    /\ rows' = rows \o NewRows(syncing[p].items, syncing[p].existing)
    /\ Len(rows') <= MaxRows
    /\ syncing' = [Disturbed EXCEPT ![p] = NoSync]
\* The transaction is rolled back, or the discovery put aside.
AbortSync(p) ==
    /\ syncing[p] # NoSync
    /\ syncing' = [syncing EXCEPT ![p] = NoSync]
    /\ UNCHANGED rows

RegistryNext ==
    \/ CreateInterface \/ UpdateInterface \/ DeleteInterface
    \/ \E p \in Registrars : Discover(p) \/ BeginSync(p) \/ CommitSync(p) \/ AbortSync(p)
-----------------------------------------------------------------------------
RowsWith(key, is) == Cardinality({k \in DOMAIN is : IfaceKey(is[k]) = key})

\* Confirming all that a discovery called new settles it: unless somebody else registers at the
\* same time, the next discovery finds nothing new, nothing more that is gone and nothing more
\* that differs but what had to be renamed, every interface was registered once and under a name
\* of its own, and sending the list again makes nothing. A list that declares an interface
\* twice, which only a manifest of version 2 can, is the exception.
SyncSettles ==
    [][\A p \in Registrars : CommitSync(p) /\ syncing[p].alone =>
        LET items == syncing[p].items
            new == SubSeq(rows', Len(rows) + 1, Len(rows'))
        IN  /\ NewRows(items, rows') = <<>>
            /\ NamesOf(new) \cap NamesOf(rows) = {} /\ Cardinality(NamesOf(new)) = Len(new)
            /\ Twice(items) \/ \A key \in KeysOf(new) : RowsWith(key, rows') = 1
            /\ \A m \in Manifests : Parsed(m) /\ Added(m, rows) = items =>
                /\ Added(m, rows') = <<>> /\ Gone(m, rows') = Gone(m, rows)
                /\ Differing(m, rows') \subseteq ToSet(items) \cup Differing(m, rows)]_registryVars
=============================================================================
