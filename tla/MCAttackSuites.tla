--------------------------- MODULE MCAttackSuites ---------------------------
(* A small instance of AttackSuites for TLC: two questions, a corpus with a
   duplicate, boilerplate and a foreign text, and configurations of the two
   suites that meet every filter, defense and chunker. *)
EXTENDS AttackSuites

WidthDef == [prose |-> 3, foreign |-> 3, boiler |-> 3, heading |-> 3, quantity |-> 3,
             secret |-> 5, redacted |-> 2, order |-> 3, token |-> 3]
\* One qid is a part of the other, as scifact-1 is of scifact-13 (fetch_scifact.py).
QidsDef == <<"q1", "q13">>
QuestionDef == [q1 |-> <<<<"what">>, <<"rate">>, <<"at", "300">>>>, q13 |-> <<<<"what">>>>]
GoldDef == [q1 |-> [value |-> "8", unit |-> "hours"], q13 |-> [value |-> "x", unit |-> ""]]
StopWordsDef == {<<"what">>}
NeutralNamesDef == {<<"notes">>}
SeenDef == <<"ignore_previous">>
HeldoutDef == <<"audit_tag">>
SubjectDef == [email |-> <<<<<<"dana">>, <<"whitlock">>>>>>, phone |-> <<<<<<"night">>>>, <<<<"incident">>>>>>]
UnitsDef == [hours |-> "hours", hrs |-> "hours"]

P(w) == Word("prose", w, "")
Hours(v, f) == Word("quantity", v, f)
File(dir, stem, text) == [source |-> Path(dir, stem), text |-> text, loader |-> "ok"]

\* Two documents that agree, one of another unit, one duplicate in a directory
\* of its own, one that is all boilerplate.
Manual == File("kb", <<"manual">>, <<P("m"), Hours("8", "hours")>>)
Faq == File("kb", <<"rate", "at">>, <<P("f"), Hours("8", "hrs")>>)
Sheet == File("kb", <<"sheet">>, <<P("s"), P("t"), Hours("9", "hrs"), P("u")>>)
Copy == File("noise", <<"copy">>, <<Word("prose", "m", "Aa"), Hours("8", "hours")>>)
Menu == File("__old__", <<"menu">>, <<Word("boiler", "menu", ""), P("x")>>)
Foreign3 == File("kb", <<"notes">>, [n \in 1..3 |-> Word("foreign", "f", "")])
Long == File("kb", <<"long">>, <<P("a"), Word("heading", "h", ""), P("b"), P("c"), P("d"), P("e")>>)
Leaky == File("kb", <<"dana">>, <<P("l"), Word("secret", "s1", ""), Word("secret", "s2", "")>>)
CardCopy == File("kb", <<"card">>, <<Word("heading", "email/0", ""), P("email"), Redaction>>)

Image == [source |-> Path("img", <<"menu">>), text |-> <<>>, loader |-> "none"]
Torn == [source |-> Path("kb", <<"torn">>), text |-> <<>>, loader |-> "raises"]

Off == [enabled |-> FALSE, targets |-> 0]
On(n) == [enabled |-> TRUE, targets |-> n]
SecurityConfig(files, filters, chunker, poison, injection, disjoint, defenses) ==
  [suite |-> "security", files |-> files, filters |-> filters, chunker |-> chunker,
   poisoning |-> poison, injection |-> injection, disjoint |-> disjoint,
   defenses |-> defenses, probes |-> 1, control_sample |-> 1, screen_sample |-> 1]
PrivacyConfig(files, filters, canaries, probes) ==
  [suite |-> "privacy", files |-> files, filters |-> filters, chunker |-> "fixed",
   canaries |-> canaries, kinds |-> <<"email", "phone">>, probes |-> probes,
   defenses |-> <<"none", "pii_filter">>]

ConfigsDef ==
  {SecurityConfig(<<Image, Manual, Torn, Copy>>, <<"dedup", "boilerplate">>, "fixed", On(1), On(1), TRUE, <<"none">>),
   SecurityConfig(<<Manual, Menu, Foreign3>>, <<"boilerplate", "language">>, "fixed",
                  On(1), On(0), FALSE, <<"injection_filter">>),
   SecurityConfig(<<Manual>>, <<>>, "fixed", On(1), On(1), FALSE, <<"none", "injection_filter">>),
   SecurityConfig(<<Manual, Faq>>, <<>>, "fixed", On(0), Off, FALSE, <<"answer_integrity">>),
   SecurityConfig(<<Manual, Faq, Sheet>>, <<>>, "fixed", On(1), Off, FALSE, <<"answer_integrity">>),
   SecurityConfig(<<Manual, Sheet>>, <<"dedup">>, "structure", On(1), Off, TRUE, <<"answer_integrity">>),
   SecurityConfig(<<Long>>, <<>>, "fixed", Off, On(1), TRUE, <<"prompt_isolation">>),
   SecurityConfig(<<Long>>, <<>>, "structure", Off, On(1), TRUE, <<"prompt_isolation">>),
   PrivacyConfig(<<Manual, Leaky>>, <<"dedup">>, 2, 1),
   PrivacyConfig(<<CardCopy, Leaky>>, <<"pii", "dedup">>, 2, 2),
   PrivacyConfig(<<CardCopy, Manual>>, <<"pii", "dedup">>, 1, 1),
   PrivacyConfig(<<Manual>>, <<"pii", "dedup">>, 3, 1)}
=============================================================================
