---------------------------- MODULE MCPurgeQueue ----------------------------
(***************************************************************************)
(* Small instances of PurgeQueue: a page and the sitemap of one site, the  *)
(* sitemap refused by Cloudflare or not, and a page of another zone or of  *)
(* a host with no zone.                                                    *)
(***************************************************************************)
EXTENDS PurgeQueue

MCSite == {"wiki/a", "wiki/sitemap"}
MCRelatedUrls == {"wiki/sitemap"}
MCRelated == [u \in Pages |-> IF u \in MCSite THEN MCRelatedUrls ELSE {}]
MCZones == {"wiki", "blog"}
MCZoneOf ==
  [u \in Urls |-> IF u \in MCSite THEN "wiki" ELSE IF u = "blog/c" THEN "blog" ELSE NoZone]
=============================================================================
