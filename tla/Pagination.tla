------------------------------ MODULE Pagination ------------------------------
(***************************************************************************)
(* The arithmetic of pages that every listing shares: which rows a page    *)
(* skips and takes, and what the answer says of the other pages.           *)
(***************************************************************************)
EXTENDS Integers

CONSTANTS DefaultPage, DefaultLimit

\* "query.page || 1": a missing or zero value takes the default.
PageOf(query) == IF query.page = 0 THEN DefaultPage ELSE query.page
LimitOf(query) == IF query.limit = 0 THEN DefaultLimit ELSE query.limit

\* buildPrismaQueryOptions(): the positions, from 1, of the rows of a page.
\* Variant: pages that overlap by a row.
SkipOverlapping(page, limit) == (page - 1) * (limit - 1)
Skip(page, limit) == (page - 1) * limit
Positions(page, limit) == Skip(page, limit) + 1 .. Skip(page, limit) + limit

\* buildPaginationMeta()
TotalPages(total, limit) == (total + limit - 1) \div limit
HasNextPage(page, limit, total) == page < TotalPages(total, limit)
HasPreviousPage(page) == page > 1
\* AiGatewayService.getLogs() computes the same without the division.
HasNextLogs(page, limit, total) == page * limit < total
=============================================================================
