----------------------------- MODULE GroupSelect -----------------------------
(***************************************************************************)
(* Which groups a process installs (Rcubic.groupSelect), by comparing      *)
(* versions with those in the audit log (LogToDB.isNewestVersion,          *)
(* verComp).                                                               *)
(*                                                                         *)
(* A version is the sequence of the parts between its "-", "_" and "~"; a  *)
(* part is the sequence of the numbers between its dots, once letters are  *)
(* taken out.  NoNumber is what int() refuses.                             *)
(***************************************************************************)
EXTENDS Integers, SequencesExt

CONSTANTS
  NoNumber,      \* of the integers, not a natural number
  NotInstalled   \* the audit log has no success of the group

ASSUME NumberAssumption == NoNumber \notin Nat

VersionSet == Seq(Seq(Nat \cup {NoNumber}))

\* The elements of a release.
GroupElements(names) ==
  [name : names, special : BOOLEAN, autoselect : BOOLEAN,
   version : VersionSet, installed : {NotInstalled} \cup VersionSet]

\* Slip: the part is not padded.
NotPadded(part, len) == part

Padded(part, len) == [i \in DOMAIN part \cup 1 .. len |->
                        IF i \in DOMAIN part THEN part[i] ELSE 0]

VersionCompareError == 2

\* The places of a part of b where the loop over zip() does not go on to the next:
\* zip drops what the part of a has beyond, since the loop that should pad b tests
\* len(b[0]) < len(b[0]).
Decisive(part, other) ==
  LET x == Padded(part, Len(other))
  IN {i \in DOMAIN x \cap DOMAIN other : x[i] # other[i] \/ NoNumber \in {x[i], other[i]}}

First(places) == CHOOSE i \in places : \A k \in places : i <= k

ComparePart(part, other) ==
  LET x == Padded(part, Len(other))
      i == First(Decisive(part, other))
  IN IF NoNumber \in {x[i], other[i]} THEN VersionCompareError
     ELSE IF x[i] > other[i] THEN 1 ELSE -1

\* 1, 0 or -1 as a is greater, the same or less; VersionCompareError if a number
\* that is looked at is none.  Each call compares one part of each.
VerComp(a, b) ==
  LET parts == {k \in DOMAIN a \cap DOMAIN b : Decisive(a[k], b[k]) # {}}
  IN CASE parts # {}                    -> ComparePart(a[First(parts)], b[First(parts)])
       [] parts = {} /\ Len(a) = Len(b) -> 0
       [] parts = {} /\ Len(a) < Len(b) -> 1
       [] parts = {} /\ Len(a) > Len(b) -> -1

\* An unreadable version is taken to be new.
IsNewestVersion(version, installed) ==
  \/ installed = NotInstalled
  \/ VerComp(version, installed) \in {1, VersionCompareError}

ToInstall(g, named) ==
  \/ g.special
  \/ g.name \in named
  \/ named = {} /\ g.autoselect /\ IsNewestVersion(g.version, g.installed)

\* The members of a sequence that are in a set, in their order.
Among(seq, set) ==
  FlattenSeq([i \in DOMAIN seq |-> IF seq[i] \in set THEN <<seq[i]>> ELSE <<>>])

\* install is the list of the release's elements, named the -g option.
Chosen(install, named) == Among(install, {g \in ToSet(install) : ToInstall(g, named)})

\* Nothing is chosen, or a group that was named is not configured.
SelectRaises(chosen, named) ==
  chosen = <<>> \/ ~ (named \subseteq {g.name : g \in ToSet(chosen)})

-----------------------------------------------------------------------------
(* What it is for a version to be later than another: the first number     *)
(* that differs decides, missing numbers are zero, and a version is later  *)
(* than the same with a suffix.                                            *)

Number(version, k, i) ==
  IF k \in DOMAIN version /\ i \in DOMAIN version[k] THEN version[k][i] ELSE 0

\* The places where one of the versions has a number; the others are zeros.
Places(a, b, k) ==
  UNION {IF k \in DOMAIN v THEN DOMAIN v[k] ELSE {} : v \in {a, b}}

SamePart(a, b, k) == \A i \in Places(a, b, k) : Number(a, k, i) = Number(b, k, i)

Later(a, b) ==
  \E k \in DOMAIN b :
    /\ \A l \in 1 .. k - 1 : l \in DOMAIN a /\ SamePart(a, b, l)
    /\ \/ k = Len(a) + 1
       \/ /\ k \in DOMAIN a
          /\ \E i \in Places(a, b, k) :
               /\ Number(a, k, i) > Number(b, k, i)
               /\ \A h \in 1 .. i - 1 : Number(a, k, h) = Number(b, k, h)

Readable(version) == \A k \in DOMAIN version : NoNumber \notin ToSet(version[k])
=============================================================================
