------------------------ MODULE MCForecastCollection ------------------------
\* One collecting run and one replay of its raw objects, two grids, and one
\* republication that gives the first grid a second page.
EXTENDS ForecastCollection

MCCollector == (Run \ Replays) \X (1..MaxTries)
MCPagination == << <<1, 1>>, <<2, 1>> >>
=============================================================================
