---------------------------- MODULE MCStateLocks ----------------------------
EXTENDS StateLocks

\* A handler that nests guards, readers of the outer lock and writers of the
\* inner one; the reconciler and the spawned tasks nest and read as well.
MCOrdered == {"read_agents", "start_agent", "change_api_keys"}

\* The cycle of two of the handlers, and of one with itself.
MCChatting == {"chat_websocket", "create_agent"}
MCAttaching == {"attach_volume"}
=============================================================================
