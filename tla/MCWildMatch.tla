---------------------------- MODULE MCWildMatch ----------------------------
(* Small instances of WildMatch.                                           *)
EXTENDS WildMatch

CONSTANT MaxBody, MaxMask

a == 97
b == 98
A == 65

Strings(chars, lens) == UNION {[1..n -> chars] : n \in lens}

Question(op, masks, names) == [op : {op}, mask : masks, name : names]

(* Earlier questions, which leave nothing (with no wild card), short or    *)
(* long strings in the buffers.                                            *)
Earlier ==
  Question("match", {<<a>>}, {<<a>>}) \cup
  Question("match", {<<a, a, a, a, a, STAR, DOT, a, a>>, <<a, b, STAR>>},
                    {<<a, a, a, a, a, b, b, DOT, a, a, b>>, <<b, a>>})

Masks ==
  {body \o ext : body \in Strings({a, b, STAR, ANY}, 1..MaxMask),
                 ext \in {<<>>, <<DOT>>, <<DOT, A>>, <<DOT, STAR>>, <<DOT, ANY>>, <<DOT, a, STAR>>}}
  \cup {<<DOT, STAR>>, <<DOT, ANY>>, <<DOT, a, STAR>>, <<DOT, STAR, DOT, a>>}

Names ==
  {body \o ext : body \in Strings({a, b}, 1..MaxBody)
                            \cup {<<a, a, a, a, b>>, <<A, b>>, <<a, DOT, b>>},
                 ext \in {<<>>, <<DOT>>, <<DOT, a>>, <<DOT, a, b>>}}
  \cup {<<DOT, a>>, <<a, STAR, b>>}

(* Names that -X is asked about, and paths with directories.               *)
Asked ==
  LET names == Strings({a, b, DOT}, 1..MaxBody)
               \cup {<<a, b, DOT, a, b>>, <<a, A>>, <<a, STAR>>, FrontPage, CVSSVN}
      few == {<<a>>, <<b, DOT, a>>, FrontPage, <<a, b>>}
      paths == {d \o <<sep>> \o n : d \in few, sep \in {SLASH, BACKSLASH}, n \in few}
               \cup {<<SLASH>> \o d \o <<SLASH>> \o e \o <<SLASH, b>> : d, e \in few}
  IN  Question("file", {<<>>}, names \cup paths) \cup Question("dir", {<<>>}, names)
        \cup Question("path", {<<>>}, names \cup paths)

NoSwitch == [text |-> <<>>, infile |-> <<>>, exists |-> TRUE]

Excludes ==
  LET masks == Strings({a, STAR, ANY, DOT}, 1..MaxMask)
               \cup {<<a, STAR, DOT, STAR>>, <<STAR, a, STAR, b>>, <<a, STAR, STAR, DOT, STAR>>, <<b, SLASH, A>>}
      list == masks \cup {m \o <<SEMI>> \o n : m \in {<<b>>, <<b, DOT, STAR>>, <<>>},
                                             n \in {<<a, STAR>>, <<STAR, a>>, <<>>, <<b, SEMI>>}}
  IN  [text : list \cup {<<COLON>> \o t : t \in list \cup {<<COLON>>, <<COLON, COLON>>,
                                                         <<COLON, a>>, <<COLON, COLON, COLON>>}},
       infile : {<<>>}, exists : {TRUE}]
        \cup
      [text : {<<ATSIGN, b>>, <<COLON, ATSIGN, b>>},
       infile : Strings({a, SPACE, LF, 233}, 1..MaxMask)
                  \cup {<<b, CR, LF, STAR, DOT, a, LF>>, <<STAR, b, SPACE, LF>>},
       exists : BOOLEAN]

MCSwitches == {NoSwitch} \cup Excludes

MCQuestions(sw, t) ==
  CASE sw # NoSwitch /\ t = 1 -> Asked
    [] sw = NoSwitch /\ t = 1 -> Earlier
    [] sw = NoSwitch /\ t = 2 -> Question("match", Masks, Names)
    [] OTHER -> {}
=============================================================================
