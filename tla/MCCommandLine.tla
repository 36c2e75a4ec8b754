----------------------------- MODULE MCCommandLine -----------------------------
(* Every command line of up to two arguments, and of three out of fewer,   *)
(* of an alphabet that has inputs of every kind: nested deeper than there  *)
(* are slots, naming themselves, with too many arguments (of which the     *)
(* first may be another input), or missing at the bottom.                  *)
EXTENDS CommandLine

It(o, a) == [op |-> o, arg |-> a]
T(v) == It("text", v)
In(v) == It("input", v)
Do(o) == It(o, "a")
File(items) == [kind |-> "read", items |-> items]
No(k) == [kind |-> k, items |-> <<>>]

MCValues == {"a", "b"}

MCInputs ==
  [one     |-> File(<<T("a"), It("find", "b")>>),
   two     |-> File(<<In("one"), T("b"), Do("switch")>>),
   three   |-> File(<<In("two"), In("hollow")>>),
   four    |-> File(<<In("three"), In("one")>>),
   self    |-> File(<<T("b"), In("self"), Do("version")>>),
   lost    |-> File(<<In("lost2"), T("a")>>),
   lost2   |-> File(<<In("lost3")>>),
   lost3   |-> File(<<In("gone"), T("a")>>),
   many    |-> File(<<In("one"), T("b"), T("a"), T("a"), Do("help")>>),
   tail    |-> File(<<T("b"), Do("version")>>),
   deep    |-> File(<<In("tail"), T("b"), T("a"), T("a")>>),
   much    |-> File(<<T("b"), T("b"), Do("help"), T("a"), T("a")>>),
   hollow  |-> File(<<>>),
   gone    |-> No("missing"),
   shut    |-> No("shut"),
   empty   |-> No("empty"),
   big     |-> No("big"),
   short   |-> No("short")]

MCItems == {In(v) : v \in DOMAIN MCInputs \ {"lost2", "lost3"}}
             \cup {T("a"), It("find", "b")}
             \cup {Do(o) : o \in {"blank", "bad", "help", "version", "out", "list"}}

(* The arguments that are combined three at a time.                        *)
MCCore == {In(v) : v \in {"one", "three", "four", "self", "lost", "many", "hollow"}}
            \cup {T("a"), It("find", "b"), Do("blank"), Do("version"), Do("list")}

MCCommands == UNION {[1..n -> MCItems] : n \in 0..2} \cup [1..3 -> MCCore]
=============================================================================
