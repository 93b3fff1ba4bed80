-------------------------- MODULE MCModbusTransport --------------------------
EXTENDS ModbusTransport

CONSTANTS r1, r2, c1
=============================================================================
