---------------------------- MODULE MCBlockTransfer ----------------------------
(* One unit of time is 30 seconds or so; one version of one file.          *)
EXTENDS BlockTransfer

CONSTANTS a, b

MCFiles == {{a}}
MCBatches == {{a}, {a, b}}
=============================================================================
