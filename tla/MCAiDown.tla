------------------------------ MODULE MCAiDown ------------------------------
EXTENDS AiDown
MCGateway    == {"openrouter-gateway"}
MCAnyProducer == {"openrouter-gateway", "computed"}
=============================================================================
