----------------------------- MODULE MCBotxToken -----------------------------
EXTENDS BotxToken

CONSTANTS c1, c2
=============================================================================
