----------------------------- MODULE MCEvidence -----------------------------
(* Two images share the first character of their digests; transforms give  *)
(* new images, the image itself, a tile twice, and one beyond the limits.  *)
EXTENDS Evidence
MCRoot == <<1, 1>>
Clash == <<1, 2>>
Other == <<2, 1>>
Big == <<3, 1>>
MCDigests == {MCRoot, Clash, Other, Big}
MCOversized == {Big}
MCOverview == <<"metadata">>
MCSupported == {"metadata", "detect", "ocr"}
Ask(capability, required) == [capability |-> capability, required |-> required]
MCPlans ==
  {[explicit |-> <<Ask("detect", FALSE), Ask("ocr", FALSE)>>, overview |-> TRUE, failFast |-> FALSE],
   [explicit |-> <<Ask("segment", FALSE), Ask("detect", TRUE), Ask("detect", FALSE)>>, overview |-> FALSE, failFast |-> FALSE],
   [explicit |-> <<Ask("segment", TRUE), Ask("detect", FALSE)>>, overview |-> TRUE, failFast |-> TRUE]}
MCRenderings == {<<MCRoot>>, <<Clash>>, <<Big>>, <<Clash, Other>>, <<Other, Other>>}
=============================================================================
