------------------------------ MODULE Dashboard ------------------------------
(***************************************************************************)
(* Navigation on the dashboard: how a URL's query becomes filters and list *)
(* parameters, and which URLs the page's links carry.  A browsing session  *)
(* starts at any URL and follows links; every page it reaches is checked.  *)
(*                                                                         *)
(* A query is a record with one field per parameter, "" when it is absent. *)
(* Repeated scope and severity parameters are sets: the store asks only    *)
(* whether a value is among them.  Repeated tag parameters are a sequence  *)
(* of the parts before and after the first colon; one without a colon or   *)
(* with nothing before it has the key "".  An integer that does not parse  *)
(* is NaN, an absent one 0.                                                *)
(***************************************************************************)
EXTENDS EventModel, ListLimits, Sequences, FiniteSets

CONSTANTS
    Entries,     \* the queries a session may start with
    EventTags,   \* the tags shown on events
    Joined,      \* Joined[<<a, b>>] is the text a + ":" + b
    ViewTotals,  \* the numbers of matching rows to consider
    Times,       \* the texts that parse as datetime-local
    NaN,         \* an integer parameter that does not parse
    MaxInt,      \* the largest int: 2^63 - 1 in the code
    DashboardLimit,
    MaxTags      \* bound: the tags of a tag link that is followed

VARIABLE query   \* the URL of the page shown

quickRanges == {"5m", "30m", "1h", "24h"}
Views == {"current", "site", "history", "alerts"}

Pair == [key : STRING, value : Text]

\* A tag of an event.  Its key may hold colons: key is then the part before the
\* first one and rest the part after it, or else None.
EventTag == [key : STRING, rest : Text \cup {None}, value : Text]

\* key+":"+value as a tag parameter: strings.Cut finds the first colon.
cut(tag) ==
    [key |-> tag.key,
     value |-> IF tag.rest = None THEN tag.value ELSE Joined[<<tag.rest, tag.value>>]]

Query ==
    [view : STRING, alerted : STRING, team : Text, for_team : Text, range : STRING,
     start_after : STRING, start_before : STRING, type : Text, user : STRING,
     scope : SUBSET Text, severity : SUBSET Text, tag : Seq(Pair),
     limit : NaN..MaxInt, offset : NaN..MaxInt]

NoQuery ==
    [view |-> EmptyText, alerted |-> EmptyText, team |-> EmptyText, for_team |-> EmptyText,
     range |-> EmptyText, start_after |-> EmptyText, start_before |-> EmptyText,
     type |-> EmptyText, user |-> EmptyText,
     scope |-> {}, severity |-> {}, tag |-> << >>, limit |-> 0, offset |-> 0]

ASSUME DashboardAssumption ==
    /\ DashboardLimit \in 1..MaxLimit
    /\ NaN \in Int /\ NaN < 0
    /\ MaxInt \in Nat /\ MaxLimit <= MaxInt
    /\ MaxTags \in Nat
    /\ Entries \subseteq Query
    /\ EventTags \subseteq EventTag
    /\ \A tag \in EventTags : cut(tag) \in Pair
    /\ TrimSpace[EmptyText] = EmptyText
    /\ \A t \in {"site", "sev0", "sev1", "maintenance"} :
          t \in Text /\ TrimSpace[t] = t /\ ToLower[t] = t

-----------------------------------------------------------------------------
(* parseDashboardRequest *)

dashboardView(q) ==
    IF q.view \in Views THEN q.view
    ELSE IF q.view = EmptyText /\ q.alerted = "true" THEN "alerts" ELSE "history"

isListing(q) == dashboardView(q) \in {"history", "alerts"}

normalizeCurrentValues(values) == {ToLower[TrimSpace[v]] : v \in values} \ {EmptyText}

\* What a loop over s appends when it passes over what is not in K.
kept(s, K) ==
    LET places == {i \in DOMAIN s : s[i] \in K}
        nth(n) == CHOOSE i \in places : Cardinality({j \in places : j <= i}) = n
    IN  [n \in 1..Cardinality(places) |-> s[nth(n)]]

parseDashboardTags(q) == kept(q.tag, {t \in Pair : t.key # EmptyText})

\* ListParams.Tags: one value per key, the last one given.
lastWith(tags, key) ==
    CHOOSE i \in DOMAIN tags :
        /\ tags[i].key = key
        /\ \A j \in DOMAIN tags : tags[j].key = key => j <= i
tagMap(tags) == [k \in {tags[i].key : i \in DOMAIN tags} |-> tags[lastWith(tags, k)].value]

\* parseDashboardRange: what the form echoes and the bounds of the listing.
\* A preset stands for its bound, that long ago.
rangeFilter(q) ==
    IF ~isListing(q) THEN EmptyText ELSE IF q.range = EmptyText THEN "24h" ELSE q.range
customBound(q, text) == IF rangeFilter(q) = "custom" THEN text ELSE EmptyText
parsedBound(text) == IF text \in Times THEN text ELSE EmptyText
startAfter(q) ==
    IF rangeFilter(q) \in quickRanges THEN rangeFilter(q)
    ELSE parsedBound(customBound(q, q.start_after))
startBefore(q) == parsedBound(customBound(q, q.start_before))

parseBoundedInt(n, minimum, fallback) == IF n < minimum THEN fallback ELSE n

tagsOf(q) == IF isListing(q) THEN parseDashboardTags(q) ELSE << >>

\* params.Tags["team"] of a Go map: "" for a missing key.
teamTag(tags) == IF "team" \in DOMAIN tagMap(tags) THEN tagMap(tags)["team"] ELSE EmptyText

teamOf(q) ==
    IF teamTag(tagsOf(q)) # EmptyText THEN teamTag(tagsOf(q))
    ELSE IF TrimSpace[q.team] # EmptyText THEN TrimSpace[q.team] ELSE TrimSpace[q.for_team]

filtersOf(q) ==
    [view |-> dashboardView(q),
     team |-> teamOf(q),
     range |-> rangeFilter(q),
     start_after |-> customBound(q, q.start_after),
     start_before |-> customBound(q, q.start_before),
     type |-> TrimSpace[q.type],
     user |-> IF isListing(q) THEN q.user ELSE EmptyText,
     scope |-> normalizeCurrentValues(q.scope),
     severity |-> normalizeCurrentValues(q.severity),
     tag |-> tagsOf(q)]

\* The ListParams of History and Alerts.
listParams(q) ==
    [alertedOnly |-> dashboardView(q) = "alerts",
     after |-> startAfter(q), before |-> startBefore(q),
     type |-> filtersOf(q).type, user |-> filtersOf(q).user,
     tags |-> tagMap(filtersOf(q).tag)]

limitOf(q) == effectiveLimit(parseBoundedInt(q.limit, 1, DashboardLimit))
offsetOf(q) == parseBoundedInt(q.offset, 0, 0)

\* listDashboardEvents: the CurrentParams of the views of active work.
currentParams(q) ==
    LET f == filtersOf(q)
    IN  [forTeam |-> IF f.view = "site" THEN EmptyText ELSE f.team,
         scopes |-> IF f.view = "site" THEN {"site"} ELSE f.scope,
         severities |-> f.severity, type |-> f.type]

\* The banner on every view.
highVisibilityParams(q) ==
    LET f == filtersOf(q)
    IN  [forTeam |-> f.team,
         scopes |-> IF f.view = "site" THEN {"site"} ELSE f.scope,
         severities |-> IF f.severity = {} THEN {"sev0", "sev1"} ELSE f.severity,
         type |-> f.type]

-----------------------------------------------------------------------------
(* The links *)

dashboardURL(view, team, range) ==
    [NoQuery EXCEPT !.view = view, !.team = team, !.range = range]

tagFilterURL(tag) == [NoQuery EXCEPT !.tag = <<cut(tag)>>]

\* Mutant: the view is left to the default.
dashboardFilterQuery_NoView(f) ==
    [NoQuery EXCEPT !.team = f.team, !.range = f.range,
                    !.start_after = f.start_after, !.start_before = f.start_before,
                    !.type = f.type, !.user = f.user,
                    !.scope = f.scope, !.severity = f.severity, !.tag = f.tag]

dashboardFilterQuery(f) ==
    [NoQuery EXCEPT !.view = f.view, !.team = f.team, !.range = f.range,
                    !.start_after = f.start_after, !.start_before = f.start_before,
                    !.type = f.type, !.user = f.user,
                    !.scope = f.scope, !.severity = f.severity, !.tag = f.tag]

\* Mutant: the new value is added beside, and before, the old one.
dashboardTagFilterURL_KeepsOld(f, tag) ==
    [dashboardFilterQuery(f) EXCEPT !.tag = <<cut(tag)>> \o f.tag]

\* The key of an active tag, which has no colon, is compared with all of the
\* key of the tag chosen.
dashboardTagFilterURL(f, tag) ==
    [dashboardFilterQuery(f) EXCEPT
        !.tag = Append(kept(f.tag, {t \in Pair : tag.rest # None \/ t.key # tag.key}), cut(tag)),
        !.team = IF tag.rest = None /\ tag.key = "team" THEN tag.value ELSE f.team]

\* Mutant: the team context outlives the tag that set it.
dashboardTagRemoveURL_KeepsTeam(f, pair) ==
    [dashboardFilterQuery(f) EXCEPT !.tag = kept(f.tag, Pair \ {pair})]

dashboardTagRemoveURL(f, pair) ==
    [dashboardFilterQuery(f) EXCEPT
        !.tag = kept(f.tag, Pair \ {pair}),
        !.team = IF pair.key = "team" /\ f.team = pair.value THEN EmptyText ELSE f.team]

\* Mutant: the link forgets the banner's default severities.
currentURL_NoSeverities(p) ==
    [NoQuery EXCEPT !.view = "current", !.team = p.forTeam, !.scope = p.scopes,
                    !.type = p.type]

currentURL(p) ==
    [NoQuery EXCEPT !.view = "current", !.team = p.forTeam, !.scope = p.scopes,
                    !.severity = p.severities, !.type = p.type]

currentPresetURL(preset, team) ==
    currentURL([forTeam |-> team,
                scopes |-> IF preset = "site" THEN {"site"} ELSE {},
                severities |-> IF preset = "high-severity" THEN {"sev0", "sev1"} ELSE {},
                type |-> IF preset = "maintenance" THEN "maintenance" ELSE EmptyText])

\* Mutant: the page size is left to the default.
paginationURL_NoLimit(q, offset, limit) ==
    [q EXCEPT !.offset = IF offset < 0 THEN 0 ELSE offset, !.limit = 0]

\* Built from the request's own query.
paginationURL(q, offset, limit) ==
    [q EXCEPT !.offset = IF offset < 0 THEN 0 ELSE offset, !.limit = limit]

\* result.Offset + result.Limit, in an int.
pageEnd(q) ==
    LET sum == offsetOf(q) + limitOf(q)
    IN  IF sum > MaxInt THEN sum - 2 * (MaxInt + 1) ELSE sum

nextURL(q) == paginationURL(q, pageEnd(q), limitOf(q))
prevURL(q) == paginationURL(q, offsetOf(q) - limitOf(q), limitOf(q))

-----------------------------------------------------------------------------
(* Browsing *)

BrowseInit == query \in Entries

SelectView == \E v \in Views : query' = dashboardURL(v, filtersOf(query).team, "")

SelectRange ==
    /\ isListing(query)
    /\ \E r \in quickRanges \cup {"custom"} :
          query' = dashboardURL(dashboardView(query), filtersOf(query).team, r)

SelectPreset ==
    \E p \in {"all", "high-severity", "site", "maintenance"} :
       query' = currentPresetURL(p, filtersOf(query).team)

OpenBanner == query' = currentURL(highVisibilityParams(query))

AddTag ==
    /\ isListing(query)
    /\ \E tag \in EventTags : query' = dashboardTagFilterURL(filtersOf(query), tag)
    /\ Len(query'.tag) <= MaxTags

RemoveTag ==
    \E i \in DOMAIN filtersOf(query).tag :
       query' = dashboardTagRemoveURL(filtersOf(query), filtersOf(query).tag[i])

\* A tag on an event's own page.
OpenTag == \E tag \in EventTags : query' = tagFilterURL(tag)

TurnPage ==
    \E total \in ViewTotals :
       \/ pageEnd(query) < total /\ query' = nextURL(query)
       \/ offsetOf(query) > 0 /\ query' = prevURL(query)

BrowseNext ==
    \/ SelectView \/ SelectRange \/ SelectPreset \/ OpenBanner
    \/ AddTag \/ RemoveTag \/ OpenTag \/ TurnPage

BrowseSpec == BrowseInit /\ [][BrowseNext]_query

-----------------------------------------------------------------------------
(* Properties *)

\* The links built from the parsed filters lose and invent nothing: reading
\* them back gives the same filters and selects the same events.
filtersSurviveLinks ==
    LET again == dashboardFilterQuery(filtersOf(query))
    IN  /\ filtersOf(again) = filtersOf(query)
        /\ isListing(query) => listParams(again) = listParams(query)
        /\ ~isListing(query) => currentParams(again) = currentParams(query)

\* "View all matching changes" leads to exactly the changes the banner counts,
\* from every view, including its default severities.  A team that came from a
\* tag is not trimmed on this page and is on the next.
bannerLinkMatches ==
    LET counted == highVisibilityParams(query)
        shown == currentParams(currentURL(counted))
    IN  /\ shown.forTeam = TrimSpace[counted.forTeam]
        /\ shown.scopes = counted.scopes
        /\ shown.severities = counted.severities
        /\ shown.type = counted.type

\* A tag link of the listing adds or replaces that tag's filter and keeps every
\* other filter; one of an event's own page filters on that tag alone.  A tag
\* without a key cannot be filtered on.  One whose key has a colon is filtered on
\* by the part before the colon, with the rest of the key in the value: other
\* events than those with the tag, although the comment of dashboardTagFilterURL
\* promises "an exact tag filter"; the filters of other keys stay even then.
tagLinkRefines ==
    \A tag \in EventTags :
       LET before == listParams(query)
           after == listParams(dashboardTagFilterURL(filtersOf(query), tag))
           text == IF tag.rest = None THEN tag.value ELSE Joined[<<tag.rest, tag.value>>]
           with(tags) ==
              IF tag.key = EmptyText THEN tags
              ELSE [k \in DOMAIN tags \cup {tag.key} |-> IF k = tag.key THEN text ELSE tags[k]]
           others(p) == <<p.alertedOnly, p.after, p.before, p.type, p.user>>
       IN  /\ isListing(query) =>
                 after.tags = with(before.tags) /\ others(after) = others(before)
           /\ listParams(tagFilterURL(tag)).tags = with(<< >>)

\* Removing a tag removes it and, when it was the team, the team context:
\* the page no longer names that team.
tagRemovalClean ==
    \A i \in DOMAIN filtersOf(query).tag :
       LET pair == filtersOf(query).tag[i]
           after == filtersOf(dashboardTagRemoveURL(filtersOf(query), pair))
       IN  /\ \A j \in DOMAIN after.tag : after.tag[j] # pair
           /\ pair.key = "team" /\ pair.value # EmptyText => after.team # pair.value

\* The links of the page lead where they say, from every page a chain of links
\* and typed parameters can reach, but for the tag links of keys with a colon,
\* which filter on the part before it: links are written by one group of
\* functions and read back by another, with defaults, trimming and a cut at the
\* first colon in between.
LinksLeadWhereTheySay ==
    filtersSurviveLinks /\ bannerLinkMatches /\ tagLinkRefines /\ tagRemovalClean

\* Next and Previous show the same listing: the next page continues where this
\* one ends, unless its offset is beyond an int, the previous one leaves no gap,
\* and both keep the filters and the page size.
PaginationContiguous ==
    LET last == offsetOf(query) + limitOf(query)
    IN  /\ last <= MaxInt => offsetOf(nextURL(query)) = last
        /\ limitOf(nextURL(query)) = limitOf(query)
        /\ offsetOf(prevURL(query)) + limitOf(prevURL(query)) >= offsetOf(query)
        /\ offsetOf(prevURL(query)) = 0 \/ offsetOf(nextURL(prevURL(query))) = offsetOf(query)
        /\ \A link \in {nextURL(query), prevURL(query)} :
              filtersOf(link) = filtersOf(query) /\ listParams(link) = listParams(query)
=============================================================================
