------------------------- MODULE MCFetcherService -------------------------
EXTENDS FetcherService
CONSTANTS f1, f2, f3
MCFetcher == {f1, f2, f3}
MCHostOf == [f \in MCFetcher |-> "host"]
MCPriority == [f \in MCFetcher |-> IF f = f3 THEN 0 ELSE 1]
MCRefused == {f2}
MCAuthorizing == {f2}
MCRetrying == {f1}
===========================================================================
