----------------------------- MODULE KeysProofs -----------------------------
(* What Keys gives for any prefix, separator and identifiers.               *)
EXTENDS Keys, SequenceTheorems, TLAPS

\* What is put before a sequence is a prefix of the result.
LEMMA PrefixOfConcatenation ==
  ASSUME NEW E, NEW s \in Seq(E), NEW t \in Seq(E)
  PROVE  Strings!IsPrefix(s, s \o t)
<1>1. /\ s \o t \in Seq(E) /\ Len(s \o t) = Len(s) + Len(t)
      /\ Len(s) \in Nat /\ Len(t) \in Nat
      /\ \A i \in 1 .. Len(s) : (s \o t)[i] = s[i]
  BY ConcatProperties
<1>2. SubSeq(s, 1, Len(s)) = SubSeq(s \o t, 1, Len(s))
  BY <1>1
<1>. QED
  BY <1>1, <1>2 DEF Strings!IsPrefix

\* What is put before two sequences does not make them equal.
LEMMA LeftCancellation ==
  ASSUME NEW E, NEW s \in Seq(E), NEW t \in Seq(E), NEW u \in Seq(E),
         s \o t = s \o u
  PROVE  t = u
<1>1. Len(s) + Len(t) = Len(s) + Len(u) /\ Len(s) \in Nat
      /\ Len(t) \in Nat /\ Len(u) \in Nat
  BY ConcatProperties
<1>2. ASSUME NEW i \in 1 .. Len(t) PROVE t[i] = u[i]
  <2>1. (s \o t)[Len(s) + i] = t[i] /\ (s \o u)[Len(s) + i] = u[i]
    BY <1>1
  <2>. QED
    BY <2>1
<1>. QED
  BY <1>1, <1>2, SeqEqual

\* Every key starts with the prefix: the documents of two providers on one
\* bucket are apart unless one prefix starts with the other.
THEOREM KeysStartWithThePrefix ==
  ASSUME NEW E, Prefix \in Seq(E), NEW separator \in Seq(E), NEW id \in Seq(E)
  PROVE  StartsWithPrefix(Prefixed(separator, id))
<1>1. separator \o id \in Seq(E) /\ Prefix \o (separator \o id) = Prefix \o separator \o id
  BY ConcatProperties, ConcatAssociative
<1>. QED
  BY <1>1, PrefixOfConcatenation DEF Prefixed, StartsWithPrefix

\* A key that is made into a key again stays the same: CreateUninitializedItem
\* of the asynchronous provider applies PrefixIdentifier twice.
THEOREM PrefixingIsIdempotent ==
  ASSUME NEW E, Prefix \in Seq(E), NEW separator \in Seq(E), NEW id \in Seq(E)
  PROVE  Prefixed(separator, Prefixed(separator, id)) = Prefixed(separator, id)
BY KeysStartWithThePrefix DEF Prefixed

\* Two identifiers share a key only if exactly one of them starts with the
\* prefix already.
THEOREM OnlyAPrefixedIdentifierCollides ==
  ASSUME NEW E, Prefix \in Seq(E), NEW separator \in Seq(E),
         NEW id \in Seq(E), NEW other \in Seq(E),
         StartsWithPrefix(id) <=> StartsWithPrefix(other),
         Prefixed(separator, id) = Prefixed(separator, other)
  PROVE  id = other
<1>1. Prefix \o separator \in Seq(E)
  BY ConcatProperties
<1>. QED
  BY <1>1, LeftCancellation DEF Prefixed
=============================================================================
