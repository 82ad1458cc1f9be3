------------------------------ MODULE MCLlmCall ------------------------------
EXTENDS LlmCall
MCChain == <<"gateway", "native">>
=============================================================================
