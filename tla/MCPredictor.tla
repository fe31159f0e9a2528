---------------------------- MODULE MCPredictor ----------------------------
(* Small instances of Predictor: an improper still, two clean ones, and a    *)
(* GIF.                                                                    *)
EXTENDS Predictor

CONSTANTS a, b, c

MCPictures == {<<a>>, <<c>>, <<b, a>>}
=============================================================================
