---------------------------- MODULE MCPlatforms ----------------------------
(* The declared registers, and two inverters of one model. *)
EXTENDS Platforms

MCFields == AllFields
MCVariants == {{}}
MCMaxSpan == max_span
=============================================================================
