------------------------------ MODULE MCRouter ------------------------------
(* The built-in backend and two others, of which the second is preferred    *)
(* for text; requests of every kind, the refused ones among them.           *)
EXTENDS Router

CONSTANTS pillow, reader, looker, c1, c2, x1
MCRegistered == <<pillow, reader, looker>>
MCDeclared ==
  [d \in {pillow, reader, looker} |-> CASE d = pillow -> {"metadata"}
                         [] d = reader -> {"ocr", "caption", "detect", "segment"}
                         [] d = looker -> {"metadata", "ocr", "caption", "segment"}]
MCVerdict ==
  [d \in {pillow, reader, looker} |-> [c \in {"metadata", "ocr", "caption", "detect", "segment"} |->
     CASE d = reader /\ c = "detect" -> "no" [] d = looker /\ c = "segment" -> "fails" [] OTHER -> "yes"]]
Capabilities == {"metadata", "ocr", "caption", "detect", "segment", "colors"}
MCPreferred == [c \in Capabilities |-> IF c = "ocr" THEN <<looker>> ELSE <<>>]
MCAuthority == [c \in Capabilities |-> IF c = "metadata" THEN pillow ELSE Nobody]
MCConcurrency == [d \in {pillow, reader, looker} |-> 1]
Request(capability, marks, override) ==
  [capability |-> capability, marks |-> marks, override |-> override]
Kinds ==
  {Request("ocr", FALSE, reader), Request("metadata", FALSE, Nobody), Request("metadata", FALSE, looker),
   Request("caption", TRUE, Nobody), Request("caption", TRUE, reader),
   Request("detect", FALSE, Nobody), Request("detect", FALSE, looker), Request("detect", FALSE, "gone"),
   Request("segment", FALSE, reader), Request("colors", FALSE, Nobody)}
MCRequests == [c \in {c1, c2} |-> IF c = c1 THEN Kinds ELSE {Request("ocr", FALSE, Nobody)}]
=============================================================================
