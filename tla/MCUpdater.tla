----------------------------- MODULE MCUpdater -----------------------------
(* The launcher and one or two other files: TwoFiles for liveness. *)
EXTENDS Updater

TheFiles == {"cs.exe", "client.dll", "engine.dll"}
TwoFiles == {"cs.exe", "client.dll"}
==============================================================================
