------------------------- MODULE MCHostedCollection -------------------------
(* The hosted collector: its jobs over five issues of two grids, the page      *)
(* count of each of which may change once.                                     *)
EXTENDS HostedCollection

MCIssues == 1..Issues
MCPagination == << <<1, 2>>, <<2, 1>> >>
=============================================================================
