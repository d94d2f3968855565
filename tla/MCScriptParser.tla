---------------------------- MODULE MCScriptParser ----------------------------
(***************************************************************************)
(* Small releases for ScriptParser: two groups of scripts, "a" and "b" in  *)
(* the first, a name that no script has, a glob.                           *)
(***************************************************************************)
EXTENDS ScriptParser

ScriptNames == {"a", "b", "c", "d", "e"}

PatternMatches ==
  [p \in ScriptNames \cup {"x", "*"} |->
     IF p = "*" THEN ScriptNames ELSE IF p = "x" THEN {} ELSE {p}]

ScriptGroup == [n \in ScriptNames |-> IF n \in {"a", "b"} THEN "g1" ELSE "g2"]

Group(n) == [name |-> n, special |-> FALSE, autoselect |-> TRUE,
             version |-> <<<<1>>>>, installed |-> NotInstalled]

NoNumeral == -1

Plain == [hard |-> <<>>, soft |-> <<>>, child |-> <<>>, phase |-> 0,
          within |-> "rcubic", iterated |-> FALSE, arguments |-> 0,
          leftOut |-> FALSE, executable |-> TRUE]

None == <<>>
Needs(field, p) == [Plain EXCEPT ![field] = <<p>>]

\* Headers of at most one field of dependencies, with one pattern.
AtMostOne(patterns) ==
  {Plain} \cup {Needs(f, p) : f \in {"hard", "soft", "child"}, p \in patterns}

Release(files) ==
  [install |-> <<Group("g1"), Group("g2")>>, named |-> {},
   base |-> files, override |-> [n \in {} |-> Plain], whole |-> {}]

\* Three scripts, each asking for one thing at most.
Tangles ==
  {Release([a |-> ha, b |-> hb, c |-> hc]) :
     ha \in AtMostOne({"b", "c", "x"}), hb \in AtMostOne({"a", "b", "c", "x"}),
     hc \in AtMostOne({"a", "b", "x", "*"})}

\* Phases, beside a header's own dependencies; a script may be left out.
Phases ==
  {Release([a |-> [ha EXCEPT !.phase = p], b |-> [hb EXCEPT !.phase = q, !.leftOut = l],
            c |-> [hc EXCEPT !.phase = r]]) :
     ha \in {Plain, Needs("child", "b"), Needs("soft", "c")},
     hb \in {Plain, Needs("soft", "a"), Needs("hard", "x"), Needs("child", "x")},
     hc \in {Plain, Needs("soft", "b"), Needs("soft", "x")},
     p \in -1 .. 0, q \in -1 .. 1, r \in 0 .. 1, l \in BOOLEAN}

Loop(n) == [Plain EXCEPT !.iterated = TRUE, !.arguments = n]
Inner(h, t) == [h EXCEPT !.within = t]

\* An iterated script with others within it or beside it, or left out.
Nested ==
  {Release([a |-> [Loop(n) EXCEPT !.leftOut = la, !.soft = s],
            b |-> [Inner(hb, t) EXCEPT !.leftOut = lb], c |-> Inner(hc, u)]) :
     n \in 0 .. 1, la \in BOOLEAN, lb \in BOOLEAN, s \in {None, <<"x">>},
     hb \in {Plain, Needs("soft", "a"), Needs("soft", "c"), Needs("hard", "c")},
     hc \in {Plain, Needs("soft", "a"), Needs("soft", "b"), Needs("soft", "x")},
     t \in {"rcubic", "a", "b"}, u \in {"rcubic", "a"}}

\* Three scripts within one, in every relation to each other; two of them
\* may be left out.
Inside ==
  {Release([a |-> Loop(1), b |-> Inner(hb, "a"),
            c |-> [Inner(hc, "a") EXCEPT !.leftOut = l],
            d |-> [Inner(hd, "a") EXCEPT !.leftOut = l]]) :
     hb \in AtMostOne({"c", "d"}), hc \in AtMostOne({"b", "d"}),
     hd \in AtMostOne({"b", "c"}), l \in BOOLEAN}

\* Two iterated scripts, related directly, through another, or both.
TwoLoops ==
  {Release([a |-> Loop(1), b |-> [Plain EXCEPT !.soft = s],
            c |-> [Loop(1) EXCEPT !.soft = r],
            d |-> Inner(Plain, "a"), e |-> Inner(Plain, "c")]) :
     s \in {None, <<"a">>}, r \in {None, <<"a">>, <<"b">>, <<"a", "b">>}}

\* A subtree in a subtree; and two that are nested in each other only.
Deep ==
  {Release([a |-> Inner(Loop(1), t), b |-> Inner(Loop(n), "a"), c |-> Inner(hc, "b"),
            d |-> Inner(hd, "b"), e |-> Needs("soft", "a")]) :
     t \in {"rcubic", "b"}, n \in 0 .. 1, hc \in {Plain, Needs("soft", "d"), Needs("soft", "x")},
     hd \in {Plain, Needs("soft", "c"), Needs("child", "c")}}

On(names, h) == [n \in names |-> h[n]]

\* Overrides, of some scripts or of whole groups.
Overrides ==
  LET base == [a |-> Plain, b |-> Needs("soft", "a"),
               c |-> [Needs("hard", "a") EXCEPT !.executable = FALSE]]
      over == [a |-> Needs("child", "c"), b |-> Needs("hard", "*"),
               c |-> Needs("soft", "b")]
  IN {[Release(On(s, base)) EXCEPT !.override = On(o, over), !.whole = w] :
        s \in SUBSET {"a", "b", "c"}, o \in SUBSET {"a", "b", "c"},
        w \in SUBSET {"g1", "g2"}}

\* 1, 1.2, 1.0.1, "1." and the first three with one suffix or another.
Versions ==
  LET parts == {<<1>>, <<1, 2>>, <<1, 0, 1>>}
  IN {<<p>> : p \in parts \cup {<<1, NoNumber>>}}
       \cup {<<p, q>> : p \in parts, q \in {<<1>>, <<1, 1>>}}
       \cup {<<<<1>>, <<1>>, <<2>>>>}

\* What is installed, configured and asked for.
Selections ==
  {[Release([a |-> Plain, c |-> Needs("soft", "a")]) EXCEPT
      !.install = <<[Group("g1") EXCEPT !.special = sp, !.autoselect = au],
                    [Group("g2") EXCEPT !.version = v, !.installed = i]>>,
      !.named = nm] :
     sp \in BOOLEAN, au \in BOOLEAN, v \in Versions,
     i \in Versions \cup {NotInstalled}, nm \in {{}, {"g2"}, {"g1", "g3"}}}

AllReleases ==
  UNION {Selections, Tangles, Phases, Nested, Inside, TwoLoops, Deep,
         Overrides}
=============================================================================
