---------------------------- MODULE MCTrainCampaign ----------------------------
(***************************************************************************)
(* Two cells over one tree, one blob and the environment.                  *)
(***************************************************************************)
EXTENDS TrainCampaignProps, TLC

CONSTANTS x, y, ds, tok, pi

MCOrder == <<x, y>>
MCScript == <<tok, ds, pi>>
MCKindOf == (ds :> "tree") @@ (tok :> "blob") @@ (pi :> "env")
================================================================================
