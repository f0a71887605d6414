------------------------------- MODULE MCEmbed -------------------------------
(***************************************************************************)
(* Instances of Embed for TLC: the source not approved, an encoder, then   *)
(* another encoder, or the same one under another spec.                    *)
(***************************************************************************)
EXTENDS Embed

CONSTANTS e, f
EncoderOfChecked == <<Nothing, e, f>>
MaxTokensChanged == <<Nothing, e, e>>
MetadataFirstOrLast == {<<"metadata", "head", "calibrator">>, <<"head", "calibrator", "metadata">>}

=============================================================================
