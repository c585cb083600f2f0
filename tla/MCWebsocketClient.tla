------------------------ MODULE MCWebsocketClient ------------------------
EXTENDS WebsocketClient
=============================================================================
