--------------------------- MODULE MCRoutingTable ---------------------------
EXTENDS NodeOffers
=============================================================================
