------------------------------ MODULE MCSyntax ------------------------------
(***************************************************************************)
(* Keyboards for Syntax.tla, over an alphabet of the characters their      *)
(* pieces need and tables of package unicode cut down to a few runes.      *)
(***************************************************************************)
EXTENDS Syntax

\* A function given by its pairs.
Given(pairs) == [c \in {p[1] : p \in pairs} |-> (CHOOSE p \in pairs : p[1] = c)[2]]

Characters ==
  {<<"a", 97>>, <<"b", 98>>, <<"c", 99>>, <<"d", 100>>, <<"D", 68>>, <<"i", 105>>,
   <<"k", 107>>, <<"m", 109>>, <<"n", 110>>, <<"N", 78>>, <<"p", 112>>, <<"P", 80>>,
   <<"s", 115>>, <<"S", 83>>, <<"u", 117>>, <<"w", 119>>, <<"W", 87>>, <<"z", 122>>,
   <<"A", 65>>, <<"K", 75>>, <<"0", 48>>, <<"1", 49>>, <<"2", 50>>, <<"(", 40>>,
   <<")", 41>>, <<"*", 42>>, <<"+", 43>>, <<",", 44>>, <<"-", 45>>, <<".", 46>>,
   <<":", 58>>, <<"<", 60>>, <<"=", 61>>, <<">", 62>>, <<"?", 63>>, <<"[", 91>>,
   <<"\\", 92>>, <<"]", 93>>, <<"^", 94>>, <<"{", 123>>, <<"|", 124>>, <<"}", 125>>,
   <<"$", 36>>, <<"_", 95>>, <<"eacute", 233>>, <<"ecirc", 234>>, <<"euro", 8364>>,
   <<"clef", 119070>>, <<"Lu", 0>>, <<"LlOrLu", 0>>, <<"Unknown", 0>>}
CodePoints == CHOOSE f \in {Given(Characters)} : f = f
MCRune == LET x == CodePoints IN x

MCLetter == {"a", "b", "c", "d", "D", "i", "k", "m", "n", "N", "p", "P", "s", "S", "u",
             "w", "W", "z", "A", "K"}

\* a to d, i, k (with the Kelvin sign), s (with the long s), u, e acute.
MCFoldClass == {{65, 97}, {66, 98}, {67, 99}, {68, 100}, {73, 105}, {75, 107, 8490},
                {76, 108}, {77, 109}, {83, 115, 383}, {85, 117}, {201, 233}, {202, 234}}

MCNormalName == Given({<<"Lu", "lu">>, <<"LlOrLu", "llorlu">>, <<"N", "n">>, <<"Unknown", "unknown">>})

Tables ==
  [Letter |-> << <<65, 90, 1>>, <<97, 122, 1>>, <<201, 233, 32>>, <<119808, 119809, 1>> >>,
   Upper |-> << <<65, 67, 1>>, <<201, 202, 1>> >>,
   Lower |-> << <<97, 99, 1>>, <<233, 234, 1>> >>, Title |-> << <<453, 459, 3>> >>,
   Digit |-> << <<48, 57, 1>>, <<1632, 1633, 1>> >>,
   Mark |-> << <<768, 769, 1>> >>, Pc |-> << <<95, 8255, 8160>> >>,
   White_Space |-> << <<9, 13, 1>>, <<32, 32, 1>>, <<133, 160, 27>> >>]
MCTable == LET x == Tables IN x

InTable(name) == UNION {Strided(Tables[name][k]) : k \in DOMAIN Tables[name]}

MCProbe == {10, 32, 45, 48, 65, 75, 80, 94, 97, 98, 99, 107, 112, 115, 123, 233, 234, 201, 453, 1632, 8490,
            8364, 55203, 57344, 119070, 119808}

NoFlag   == <<>>
Piece(text, kind) == [text |-> text, kind |-> kind]
AtomP(text)        == Piece(text, "atom")
Open(text, wrap)  == [text |-> text, kind |-> "open", wrap |-> wrap, sets |-> NoFlag]
Times(text, n, m) == [text |-> text, kind |-> "times", times |-> <<n, m>>]
Flagged(text, f)  == [text |-> text, kind |-> "flags", sets |-> f]
RuneP(text, r)  == [text |-> text, kind |-> "rune", runes |-> {r}]
SetP(text, S)   == [text |-> text, kind |-> "set", runes |-> S]

LParen == Open(<<"(">>, "Group")
RParen == Piece(<<")">>, "close")
Bar    == Piece(<<"|">>, "bar")
StarP  == Times(<<"*">>, 0, Unbounded)
QuestP == Times(<<"?">>, 0, 1)
PlusP  == Times(<<"+">>, 1, Unbounded)
A      == AtomP(<<"a">>)

Plain(pieces, most) ==
  [before |-> <<>>, after |-> <<>>, pieces |-> pieces, flags |-> NoFlags, class |-> FALSE,
   most |-> most]

Brackets(before, pieces, flags, most) ==
  [before |-> before \o <<"[">>, after |-> <<"]">>, pieces |-> pieces, flags |-> flags,
   class |-> TRUE, most |-> most]

Structure ==
  Plain({A, LParen, RParen, Bar, PlusP, QuestP, Open(<<"(", "?", ":">>, "none")}, 5)

Flagging ==
  Plain({A, AtomP(<<".">>), LParen, RParen, Bar,
         Flagged(<<"(", "?", "i", ")">>, [caseInsensitive |-> TRUE]),
         Flagged(<<"(", "?", "u", "-", "i", ")">>,
                 [caseInsensitive |-> FALSE, unicodeMode |-> TRUE]),
         [Open(<<"(", "?", "s", "i", ":">>, "none") EXCEPT
            !.sets = [dotAll |-> TRUE, caseInsensitive |-> TRUE]]}, 4)

Counting ==
  Plain({A, LParen, RParen, Bar, QuestP, Times(<<"{", "2", "}">>, 2, 2),
         Times(<<"{", "0", ",", "}">>, 0, Unbounded), Times(<<"{", "2", ",", "}">>, 2, Unbounded),
         Times(<<"{", "1", ",", "2", "}">>, 1, 2), Times(<<"{", "2", ",", "1", "}">>, 2, 1)}, 4)

Tokens ==
  Plain({AtomP(<<"\\", "d">>), AtomP(<<"\\", "b">>), AtomP(<<"\\", "z">>), AtomP(<<"\\", "(">>),
         AtomP(<<"^">>), AtomP(<<"$">>), AtomP(<<"eacute">>), AtomP(<<"{">>), AtomP(<<",">>),
         AtomP(<<"[", "\\", "]", "a", "]">>), AtomP(<<"\\", "p", "{", "Lu", "}">>),
         Open(<<"(", "?", "=">>, "LookAhead"), Open(<<"(", "?", "<", "=">>, "LookBehind"),
         Open(<<"(", "?", "P", "<", "n", ">">>, "Group"), RParen, StarP,
         Piece(<<"[">>, "torn"), Piece(<<"\\">>, "torn")}, 3)

Caret  == RuneP(<<"^">>, 94)
Hyphen == RuneP(Dash, 45)

Bodies ==
  Brackets(<<>>, {Caret, Hyphen, RuneP(<<"a">>, 97), RuneP(<<"c">>, 99),
                  RuneP(<<"eacute">>, 233),
                  RuneP(<<"\\", "n">>, 10), RuneP(<<"\\", "]">>, 93),
                  SetP(<<"\\", "d">>, 48..57),
                  SetP(<<"\\", "p", "{", "Lu", "}">>, InTable("Upper"))}, NoFlags, 4)

FoldedBodies ==
  Brackets(<<"(", "?", "i", ")">>,
           {Caret, Hyphen, RuneP(<<"a">>, 97), RuneP(<<"k">>, 107),
            RuneP(<<"m">>, 109), RuneP(<<"eacute">>, 233),
            SetP(<<"\\", "p", "{">>, {80, 112, 123})},
           [NoFlags EXCEPT !.caseInsensitive = TRUE], 3)

UnicodeBodies ==
  Brackets(<<"(", "?", "i", "u", ")">>,
           {Caret, Hyphen, RuneP(<<"a">>, 97), RuneP(<<"k">>, 107),
            RuneP(<<"s">>, 115)},
           [NoFlags EXCEPT !.caseInsensitive = TRUE, !.unicodeMode = TRUE], 3)

\* One named class, outside of brackets.
WordRunes ==
  InTable("Letter") \cup InTable("Mark") \cup InTable("Digit") \cup InTable("Pc") \cup 8204..8205

Named ==
  [before |-> <<"(", "?", "u", ")">>, after |-> <<>>, flags |-> NoFlags, class |-> TRUE,
   most |-> 1, pieces |->
     {SetP(<<"\\", "d">>, InTable("Digit")), SetP(<<"\\", "D">>, MCProbe \ InTable("Digit")),
      SetP(<<"\\", "s">>, InTable("White_Space")),
      SetP(<<"\\", "S">>, MCProbe \ InTable("White_Space")),
      SetP(<<"\\", "w">>, WordRunes), SetP(<<"\\", "W">>, MCProbe \ WordRunes),
      SetP(<<".">>, MCProbe \ {10}), SetP(<<"\\", "p", "N">>, InTable("Digit")),
      SetP(<<"\\", "P", "{", "Lu", "}">>, MCProbe \ InTable("Upper")),
      SetP(<<"\\", "p", "{", "LlOrLu", "}">>,
               InTable("Upper") \cup InTable("Lower") \cup InTable("Title")),
      SetP(<<"\\", "p", "{", "Unknown", "}">>, {}), RuneP(<<"euro">>, 8364),
      RuneP(<<"clef">>, 119070)}]

AllKeyboards ==
  [structure |-> Structure, flagging |-> Flagging, counting |-> Counting, tokens |-> Tokens,
   bodies |-> Bodies, foldedBodies |-> FoldedBodies, unicodeBodies |-> UnicodeBodies,
   named |-> Named]
MCKeyboard == LET x == AllKeyboards IN x

\* The keyboard for an expression like ^([A-Z]{2}){2}$.
CountingItems ==
  [items |-> Plain({A, AtomP(<<"^">>), LParen, RParen, Times(<<"{", "2", "}">>, 2, 2)}, 4)]

=============================================================================
