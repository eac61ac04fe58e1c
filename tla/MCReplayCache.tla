---------------------------- MODULE MCReplayCache ----------------------------
(* TLC instances of ReplayCache: texts with characters of two and of three *)
(* bytes between the one-byte characters of the envelope.                  *)
EXTENDS ReplayCache

e     == <<195, 169>>
euro  == <<226, 130, 172>>

AnyTexts    == {<<e>>, <<euro>>}
NarrowTexts == {<<e>>}
WideTexts   == {<<euro>>}
Symmetry    == Permutations(Reader)
=============================================================================
