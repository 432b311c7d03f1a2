--------------------------- MODULE EmbraceClaims ---------------------------
(* What a comment in the source says of the pipeline and the code does not    *)
(* do: the run finds a behaviour that contradicts the sentence.               *)
EXTENDS MCEmbrace

\* raddi_detached.h, data: "the entry to be inserted when parent arrives". A
\* worker may insert the parent between another's assessment of the child and
\* its detached.insert; nobody looks at the child again.
InsertedWhenParentArrives == NobodyWaitsInVain
====
