-------------------------------- MODULE Keys --------------------------------
(***************************************************************************)
(* How the providers make the key of a document from an identifier: the    *)
(* prefix is put before it, unless it is there.  Strings are sequences of  *)
(* characters, compared one by one; the empty Prefix stands for null,      *)
(* which does the same.  Identifiers that PrefixIdentifier refuses, because *)
(* they are null or blank, are left out.                                   *)
(***************************************************************************)
EXTENDS Sequences

CONSTANT Prefix

Strings == INSTANCE SequencesExt

StartsWithPrefix(id) == Strings!IsPrefix(Prefix, id)

Prefixed(separator, id) ==
  IF StartsWithPrefix(id) THEN id ELSE Prefix \o separator \o id

\* Mutant: the identifier is not appended.
CheckKeyDropsId(id) == IF StartsWithPrefix(id) THEN id ELSE Prefix \o <<"_">>

\* The sync session provider and both output-cache providers.
CheckKey(id) == Prefixed(<<"_">>, id)

\* The asynchronous session provider.
PrefixIdentifier(id) == Prefixed(<<"-">>, id)
=============================================================================
