------------------------ MODULE MCTransformPipeline ------------------------
(* Two Bronze runs of two issues, published in either order; one hourly        *)
(* refresh, one daily one, a public product and one failure.                   *)
EXTENDS TransformPipeline

CONSTANT p1

MCRun == 1..2
MCIssueOf == <<1, 2>>
MCProduct == {p1}
=============================================================================
