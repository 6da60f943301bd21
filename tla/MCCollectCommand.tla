-------------------------- MODULE MCCollectCommand --------------------------
(* boot bootstraps the ledger; research, decide and fill are the stages;   *)
(* live is a research command that main() gives the production attestor.   *)
EXTENDS CollectCommand, TLC

CONSTANTS boot, research, decide, fill, live, fileA, fileB, fileC, runner1

AllKinds == (boot :> "portfolio-collect" @@ research :> "research-collect"
             @@ decide :> "decision-collect" @@ fill :> "fill-collect"
             @@ live :> "research-collect")

(* boot and fill save at one path, and live is pointed at decide's: they  *)
(* meet each other's checkpoints.  research and decide have their own.     *)
AllFiles == (boot :> fileB @@ research :> fileC @@ decide :> fileA @@ fill :> fileB
             @@ live :> fileA)

(* Two commands with a checkpoint each *)
OwnKinds == (research :> "research-collect" @@ decide :> "decision-collect")

OwnFiles == (research :> fileC @@ decide :> fileA)
=============================================================================
