-------------------------------- MODULE Glob --------------------------------
(***************************************************************************)
(* The text matching under the policy engine (src/src/policy.rs): globs,   *)
(* and the reachability check that compares two of them.  A text is a      *)
(* sequence of characters; the behaviours write a pattern and a target,    *)
(* one character at a time, and the invariants compare the code's          *)
(* algorithms with what the patterns mean.                                 *)
(***************************************************************************)
EXTENDS Naturals, Sequences

CONSTANTS
    Alphabet,       \* characters of patterns and targets
    MaxPattern,     \* bound on the length of the pattern
    MaxTarget       \* bound on the length of the target

Wild == {"*", "?"}

VARIABLES pattern, target

globVars == <<pattern, target>>

GlobInit == pattern = <<>> /\ target = <<>>

GlobNext ==
    \/ \E c \in Alphabet : /\ Len(pattern) < MaxPattern
                           /\ pattern' = Append(pattern, c)
                           /\ UNCHANGED target
    \/ \E c \in Alphabet : /\ Len(target) < MaxTarget
                           /\ target' = Append(target, c)
                           /\ UNCHANGED pattern

-----------------------------------------------------------------------------
StripPrefix(s, prefix) ==
    IF Len(s) >= Len(prefix) /\ SubSeq(s, 1, Len(prefix)) = prefix
    THEN SubSeq(s, Len(prefix) + 1, Len(s)) ELSE s

HasPrefix(s, prefix) == Len(s) >= Len(prefix) /\ SubSeq(s, 1, Len(prefix)) = prefix

\* Mutant: a star that must match something.
RECURSIVE GlobInnerNeedingOne(_, _)
GlobInnerNeedingOne(p, t) ==
    IF p = <<>> THEN t = <<>>
    ELSE IF t = <<>> THEN FALSE
    ELSE IF Head(p) = "*" THEN \E n \in 1..Len(t) : GlobInnerNeedingOne(Tail(p), SubSeq(t, n + 1, Len(t)))
    ELSE Head(p) \in {"?", Head(t)} /\ GlobInnerNeedingOne(Tail(p), Tail(t))

\* glob_inner, with the star's two choices in its order.
RECURSIVE GlobInner(_, _)
GlobInner(p, t) ==
    IF p = <<>> THEN t = <<>>
    ELSE IF Head(p) = "*"
      THEN GlobInner(Tail(p), t) \/ (t # <<>> /\ GlobInner(p, Tail(t)))
    ELSE t # <<>> /\ Head(p) \in {"?", Head(t)} /\ GlobInner(Tail(p), Tail(t))

\* One element is one byte, which is one character of an ASCII text: "?" does
\* not match a longer one.  A leading "./" is ignored, and a leading "**/" also matches no directory.
GlobMatches(p, t) ==
    LET pat == StripPrefix(p, <<".", "/">>)
        tgt == StripPrefix(t, <<".", "/">>)
        anyDir == <<"*", "*", "/">>
    IN  GlobInner(pat, tgt) \/ (HasPrefix(pat, anyDir) /\ GlobInner(StripPrefix(pat, anyDir), tgt))

\* Mutant: the two patterns swapped.
CoversTargetBackwards(earlier, later) == earlier = later \/ GlobMatches(later, earlier)

\* The target_in part of covers, for one pattern each.
CoversTarget(earlier, later) == earlier = later \/ GlobMatches(earlier, later)

-----------------------------------------------------------------------------
(* Properties *)

\* What a glob means: the target falls into consecutive pieces, one for each
\* character of the pattern; a star's piece is any, any other's is one
\* character, its own unless it is "?".
Means(p, t) ==
    \E cut \in [0..Len(p) -> 0..Len(t)] :
        /\ cut[0] = 0
        /\ cut[Len(p)] = Len(t)
        /\ \A i \in 1..Len(p) :
              IF p[i] = "*" THEN cut[i - 1] <= cut[i]
              ELSE cut[i] = cut[i - 1] + 1 /\ p[i] \in {"?", t[cut[i]]}

\* The matcher's search decides exactly what the glob means.
GlobInnerDecides == GlobInner(pattern, target) <=> Means(pattern, target)

\* Texts a call can name, short enough to enumerate.
Targets == UNION {[1..n -> Alphabet \ Wild] : n \in 0..MaxPattern}

\* Every target the later pattern matches, the earlier one matches too.
Shadows(earlier, later) ==
    \A t \in Targets : GlobMatches(later, t) => GlobMatches(earlier, t)

\* A rule is refused as unreachable only if an earlier one matches everything
\* it matches (covers, "a false positive is impossible").
CoversIsSound == CoversTarget(pattern, target) => Shadows(pattern, target)

\* Where that holds: the earlier pattern has no "?", and the later one does
\* not begin with "**/".
CoversIsSoundForStars ==
    /\ \A i \in DOMAIN pattern : pattern[i] # "?"
    /\ ~HasPrefix(StripPrefix(target, <<".", "/">>), <<"*", "*", "/">>)
    /\ CoversTarget(pattern, target)
    => Shadows(pattern, target)

=============================================================================
